---- MODULE Spec2Model ----
(***************************************************************************)
(* Model of the search side of dimerapp/datastore:                         *)
(*   src/src/Search.js  - query cache, query engine, highlight marks       *)
(*   src/src/Index.js   - section registry and index builder               *)
(***************************************************************************)
EXTENDS Integers, Sequences, FiniteSets, TLC

(***************************************************************************)
(* Bounds of the model                                                     *)
(***************************************************************************)
MaxTextLen == 3
MaxTerms == 2
MaxPos == 2

(***************************************************************************)
(* Values of the host language                                             *)
(***************************************************************************)
Chars == {"a", "b"}
\* the value `undefined` where a string is expected
Undefined == <<"undefined">>

Min(a, b) == IF a < b THEN a ELSE b
Max(a, b) == IF a > b THEN a ELSE b

\* All sequences over S of length 0..n
SeqUpTo(S, n) == UNION {[1..k -> S] : k \in 0..n}

\* String.prototype.substr(start, length)
Substr(text, start, length) ==
  LET size == Len(text)
      intStart == IF start < 0 THEN Max(size + start, 0) ELSE Min(start, size)
      intLength == Min(Max(length, 0), size - intStart)
  IN SubSeq(text, intStart + 1, intStart + intLength)

\* String.prototype.substring(from, to)
Substring(text, from, to) ==
  LET size == Len(text)
      f == Min(Max(from, 0), size)
      t == Min(Max(to, 0), size)
  IN SubSeq(text, Min(f, t) + 1, Max(f, t))

(***************************************************************************)
(* Highlight reconstruction (Search.js 47-126)                             *)
(*                                                                         *)
(* The metadata of a match is an object keyed by matched term; it is a     *)
(* sequence here, in key order.  Each term holds the positions of its      *)
(* occurrences in the field `content`, a position being <<start, length>>. *)
(***************************************************************************)
RECURSIVE _collectPositions(_)
_collectPositions(metadata) ==
  IF metadata = <<>> THEN <<>>
  ELSE LET n == Len(metadata)
           keyword == metadata[n]
           result == _collectPositions(SubSeq(metadata, 1, n - 1))
       IN IF keyword.hasContent THEN result \o keyword.position ELSE result

\* mutant: the reduce pushes a raw token only when its text is not empty
RECURSIVE MarksReduceSkipEmpty(_, _)
MarksReduceSkipEmpty(positions, text) ==
  IF positions = <<>> THEN [tokens |-> <<>>, lastIndex |-> 0]
  ELSE LET n == Len(positions)
           acc == MarksReduceSkipEmpty(SubSeq(positions, 1, n - 1), text)
           start == positions[n][1]
           end == positions[n][2]
           raw == Substr(text, acc.lastIndex, start - acc.lastIndex)
           mark == Substr(text, start, end)
       IN [tokens |-> acc.tokens
                      \o (IF raw = <<>> THEN <<>> ELSE << [text |-> raw, type |-> "raw"] >>)
                      \o << [text |-> mark, type |-> "mark"] >>,
           lastIndex |-> start + end]

\* the reduce of _positionToMarks: the accumulator is the tokens and lastIndex
RECURSIVE MarksReduce(_, _)
MarksReduce(positions, text) ==
  IF positions = <<>> THEN [tokens |-> <<>>, lastIndex |-> 0]
  ELSE LET n == Len(positions)
           acc == MarksReduce(SubSeq(positions, 1, n - 1), text)
           start == positions[n][1]
           end == positions[n][2]
           raw == Substr(text, acc.lastIndex, start - acc.lastIndex)
           mark == Substr(text, start, end)
       IN [tokens |-> acc.tokens \o << [text |-> raw, type |-> "raw"],
                                       [text |-> mark, type |-> "mark"] >>,
           lastIndex |-> start + end]

_positionToMarks(positions, text) ==
  IF text = Undefined \/ text = <<>> \/ positions = <<>>
  THEN << [type |-> "raw", text |-> text] >>
  ELSE LET acc == MarksReduce(positions, text)
       IN IF acc.lastIndex < Len(text)
          THEN acc.tokens \o << [type |-> "raw",
                                 text |-> Substring(text, acc.lastIndex, Len(text))] >>
          ELSE acc.tokens

\* the value `null` where a metadata object is expected, and a metadata object
NoMetadata == [present |-> FALSE, keywords |-> <<>>]
Metadata(keywords) == [present |-> TRUE, keywords |-> keywords]

_nodeToMarks(score, metadata, content) ==
  LET positions == IF metadata.present THEN _collectPositions(metadata.keywords) ELSE <<>>
  IN [score |-> score, marks |-> _positionToMarks(positions, content)]

\* the text of all tokens of a list of marks, in output order
RECURSIVE ConcatMarks(_)
ConcatMarks(marks) ==
  IF marks = <<>> THEN <<>>
  ELSE marks[1].text \o ConcatMarks(Tail(marks))

(***************************************************************************)
(* References (Index.js 268-279, Search.js 139-142)                        *)
(*                                                                         *)
(* A url and a ref are strings, modelled as sequences of tokens: a token   *)
(* is a run of characters that holds no part of the separator "@lvl", the  *)
(* separator itself, or the decimal form of a level.                       *)
(***************************************************************************)
MaxLevel == 3
Lvl == "@lvl"
NaN == 0 - 999

\* `${doc.url}@lvl${N}`
MakeRef(url, n) == url \o <<Lvl, ToString(n)>>

\* Number(str) for the part after the separator
ToNumber(part) ==
  IF part = <<>> THEN 0
  ELSE IF Len(part) = 1 /\ \E n \in 0..MaxLevel : ToString(n) = part[1]
       THEN CHOOSE n \in 0..MaxLevel : ToString(n) = part[1]
       ELSE NaN

\* String.prototype.split('@lvl'): the parts between the separators
RECURSIVE Split(_)
Split(ref) ==
  IF \A i \in 1..Len(ref) : ref[i] # Lvl THEN <<ref>>
  ELSE LET i == CHOOSE k \in 1..Len(ref) :
                   ref[k] = Lvl /\ \A j \in 1..(k - 1) : ref[j] # Lvl
       IN <<SubSeq(ref, 1, i - 1)>> \o Split(SubSeq(ref, i + 1, Len(ref)))

_getUrlAndNodeIndex(ref) ==
  LET parts == Split(ref)
  IN [url |-> parts[1],
      nodeIndex |-> IF Len(parts) >= 2 THEN ToNumber(parts[2]) ELSE NaN]

(***************************************************************************)
(* Query engine (Search.js 288-344)                                        *)
(*                                                                         *)
(* docs is the registry of a loaded artifact, a function from url to       *)
(* section.  hits is the list index.index.search(term) returns, each hit   *)
(* [ref, score, metadata].  The object built by _.transform is a sequence  *)
(* of groups in key insertion order.                                       *)
(***************************************************************************)
NoTitle == [index |-> 0 - 1, score |-> 0, metadata |-> NoMetadata]

GroupOf(result, url) == {i \in 1..Len(result) : result[i].url = url}

\* mutant: the callback keeps each body list sorted by node index
TransformStepSorted(result, node, docs) ==
  LET parsed == _getUrlAndNodeIndex(node.ref)
      url == parsed.url
      nodeIndex == parsed.nodeIndex
      created == IF GroupOf(result, url) = {} /\ url \in DOMAIN docs
                 THEN Append(result, [url |-> url, doc |-> docs[url],
                                      title |-> NoTitle, matchData |-> <<>>])
                 ELSE result
  IN IF GroupOf(created, url) = {} THEN created
     ELSE LET g == CHOOSE i \in GroupOf(created, url) : TRUE
              m == [index |-> IF nodeIndex = NaN THEN NaN ELSE nodeIndex - 1,
                    score |-> node.score, metadata |-> node.metadata]
          IN IF nodeIndex = 0
             THEN [created EXCEPT ![g].title =
                     [index |-> nodeIndex, score |-> node.score,
                      metadata |-> node.metadata]]
             ELSE [created EXCEPT ![g].matchData =
                     SelectSeq(@, LAMBDA x : x.index < m.index) \o <<m>>
                       \o SelectSeq(@, LAMBDA x : x.index >= m.index)]

\* mutant: the callback makes a group for a url that docs does not hold
TransformStepKeepsStale(result, node, docs) ==
  LET parsed == _getUrlAndNodeIndex(node.ref)
      url == parsed.url
      nodeIndex == parsed.nodeIndex
      created == IF GroupOf(result, url) = {}
                 THEN Append(result,
                        [url |-> url,
                         doc |-> IF url \in DOMAIN docs THEN docs[url]
                                 ELSE [url |-> url, title |-> <<>>, nodes |-> <<>>],
                         title |-> NoTitle, matchData |-> <<>>])
                 ELSE result
      g == CHOOSE i \in GroupOf(created, url) : TRUE
  IN IF nodeIndex = 0
     THEN [created EXCEPT ![g].title =
             [index |-> nodeIndex, score |-> node.score,
              metadata |-> node.metadata]]
     ELSE [created EXCEPT ![g].matchData =
             Append(@, [index |-> IF nodeIndex = NaN THEN NaN ELSE nodeIndex - 1,
                        score |-> node.score,
                        metadata |-> node.metadata])]

\* one iteration of the transform callback (Search.js 303-328)
TransformStep(result, node, docs) ==
  LET parsed == _getUrlAndNodeIndex(node.ref)
      url == parsed.url
      nodeIndex == parsed.nodeIndex
      created == IF GroupOf(result, url) = {} /\ url \in DOMAIN docs
                 THEN Append(result, [url |-> url, doc |-> docs[url],
                                      title |-> NoTitle, matchData |-> <<>>])
                 ELSE result
  IN IF GroupOf(created, url) = {} THEN created
     ELSE LET g == CHOOSE i \in GroupOf(created, url) : TRUE
          IN IF nodeIndex = 0
             THEN [created EXCEPT ![g].title =
                     [index |-> nodeIndex, score |-> node.score,
                      metadata |-> node.metadata]]
             ELSE [created EXCEPT ![g].matchData =
                     Append(@, [index |-> IF nodeIndex = NaN THEN NaN ELSE nodeIndex - 1,
                                score |-> node.score,
                                metadata |-> node.metadata])]

\* _.transform(hits, callback, {}): key is the 0-based position of the hit
RECURSIVE Transform(_, _, _, _, _)
Transform(hits, key, limit, docs, result) ==
  IF key >= Len(hits) THEN result
  ELSE IF limit # 0 /\ key = limit THEN result
  ELSE Transform(hits, key + 1, limit, docs, TransformStep(result, hits[key + 1], docs))

\* mutant: the transform never stops at the limit
queryResultsUnlimited(hits, limit, docs) == Transform(hits, 0, 0, docs, <<>>)

\* the grouping of search: _.transform over the flat matches (Search.js 298-329)
queryResults(hits, limit, docs) == Transform(hits, 0, limit, docs, <<>>)

\* node.doc.nodes[index]
NodeText(doc, index) ==
  IF index >= 0 /\ index < Len(doc.nodes) THEN doc.nodes[index + 1] ELSE Undefined

\* the reduce over the groups (Search.js 334-344)
SearchOutput(groups) ==
  [g \in 1..Len(groups) |->
     [url |-> groups[g].doc.url,
      title |-> _nodeToMarks(groups[g].title.score, groups[g].title.metadata,
                             groups[g].doc.title),
      body |-> [m \in 1..Len(groups[g].matchData) |->
                  _nodeToMarks(groups[g].matchData[m].score,
                               groups[g].matchData[m].metadata,
                               NodeText(groups[g].doc, groups[g].matchData[m].index))]]]

(***************************************************************************)
(* Index builder (Index.js 83-289)                                         *)
(*                                                                         *)
(* A node of the parsed document tree is a record: type, tag, the class    *)
(* names of props, href (the anchor of a heading), text (its own text) and *)
(* children.  The registry this.docs is a sequence of sections in key      *)
(* insertion order, at most one per url.                                   *)
(***************************************************************************)
blackListedBlockTags == {"pre", "html", "image", "imageReference", "linkReference", "th"}
blackListedClasses == {"dimer-highlight", "toc-container"}
headings == {"h1", "h2", "h3", "h4"}

Text(text) ==
  [type |-> "text", tag |-> "", className |-> {}, href |-> "", text |-> text,
   children |-> <<>>]
Element(tag, className, href, text, children) ==
  [type |-> "element", tag |-> tag, className |-> className, href |-> href,
   text |-> text, children |-> children]

\* mdast-util-to-string: the text of the node and of all its descendants
RECURSIVE toString(_)
toString(node) ==
  LET RECURSIVE Cat(_)
      Cat(i) == IF i = 0 THEN <<>> ELSE Cat(i - 1) \o toString(node.children[i])
  IN node.text \o Cat(Len(node.children))

_isWhiteListed(node) ==
  /\ node.tag \notin blackListedBlockTags
  /\ \A className \in node.className : className \notin blackListedClasses

_isHeading(node) == node.tag \in headings

\* Array.prototype.join
RECURSIVE Join(_, _)
Join(list, sep) ==
  IF list = <<>> THEN <<>>
  ELSE IF Len(list) = 1 THEN list[1]
  ELSE list[1] \o sep \o Join(Tail(list), sep)

\* a value _nodeToString returns: an array of strings, or one string
Strings(list) == [array |-> TRUE, value |-> list]
OneString(string) == [array |-> FALSE, value |-> string]

\* result.concat(parsed): an array is spread, a string is one more element
Concat(result, parsed) ==
  IF parsed.array THEN result \o parsed.value ELSE Append(result, parsed.value)

\* the reduce of the 'tr' branch (Index.js 173-184)
RECURSIVE RowReduce(_, _)
RowReduce(items, result) ==
  IF items = <<>> THEN result
  ELSE RowReduce(Tail(items),
         IF ~_isWhiteListed(Head(items)) THEN result
         ELSE IF Len(toString(Head(items))) # 0
              THEN Append(result, toString(Head(items)))
              ELSE result)

RECURSIVE _nodeToString(_)
_nodeToString(node) ==
  LET RECURSIVE Reduce(_, _)
      Reduce(items, result) ==
        IF items = <<>> THEN result
        ELSE Reduce(Tail(items),
               IF Len(_nodeToString(Head(items)).value) # 0
               THEN Concat(result, _nodeToString(Head(items)))
               ELSE result)
  IN IF node.type # "element" THEN Strings(<<toString(node)>>)
     ELSE IF ~_isWhiteListed(node) THEN Strings(<<>>)
     ELSE IF node.tag = "p"
          THEN (IF Len(toString(node)) # 0 THEN Strings(<<toString(node)>>)
                ELSE Strings(<<>>))
     ELSE IF node.tag = "tr"
          THEN OneString(Join(RowReduce(node.children, <<>>), <<" ">>))
     ELSE Strings(Reduce(node.children, <<>>))

NoUrl == <<>>

HasDoc(docs, url) == \E i \in 1..Len(docs) : docs[i].url = url

\* this.docs[url] = section: a known key keeps its place
PutDoc(docs, url, section) ==
  IF HasDoc(docs, url)
  THEN [i \in 1..Len(docs) |-> IF docs[i].url = url THEN section ELSE docs[i]]
  ELSE Append(docs, section)

\* mutant: a level-1 heading gets its anchor appended too
AddChildAnchorAlways(st, child, permalink) ==
  IF _isHeading(child)
  THEN LET sectionUrl == permalink \o <<child.children[1].href>>
       IN [docs |-> PutDoc(st.docs, sectionUrl,
                      [title |-> toString(child), nodes |-> <<>>, url |-> sectionUrl]),
           sectionUrl |-> sectionUrl]
  ELSE IF st.sectionUrl # NoUrl /\ HasDoc(st.docs, st.sectionUrl)
       THEN LET parsed == _nodeToString(child)
            IN IF Len(parsed.value) # 0
               THEN [st EXCEPT !.docs =
                       [i \in 1..Len(st.docs) |->
                          IF st.docs[i].url = st.sectionUrl
                          THEN [st.docs[i] EXCEPT !.nodes = Concat(@, parsed)]
                          ELSE st.docs[i]]]
               ELSE st
       ELSE st

\* the callback of content.children.map in addDoc (Index.js 224-236)
AddChild(st, child, permalink) ==
  IF _isHeading(child)
  THEN LET sectionUrl == IF child.tag = "h1" THEN permalink
                         ELSE permalink \o <<child.children[1].href>>
       IN [docs |-> PutDoc(st.docs, sectionUrl,
                      [title |-> toString(child), nodes |-> <<>>, url |-> sectionUrl]),
           sectionUrl |-> sectionUrl]
  ELSE IF st.sectionUrl # NoUrl /\ HasDoc(st.docs, st.sectionUrl)
       THEN LET parsed == _nodeToString(child)
            IN IF Len(parsed.value) # 0
               THEN [st EXCEPT !.docs =
                       [i \in 1..Len(st.docs) |->
                          IF st.docs[i].url = st.sectionUrl
                          THEN [st.docs[i] EXCEPT !.nodes = Concat(@, parsed)]
                          ELSE st.docs[i]]]
               ELSE st
       ELSE st

RECURSIVE AddChildren(_, _, _)
AddChildren(st, children, permalink) ==
  IF children = <<>> THEN st
  ELSE AddChildren(AddChild(st, Head(children), permalink), Tail(children), permalink)

\* a content object: with or without the key children
Content(children) == [hasChildren |-> TRUE, children |-> children]
NoChildrenKey == [hasChildren |-> FALSE, children |-> <<>>]

\* mutant: only the key of content is checked
RejectsMissingKeyOnly(content, permalink) == ~content.hasChildren

\* the argument checks of addDoc (Index.js 217-219): ow throws
Rejects(content, permalink) ==
  \/ ~content.hasChildren
  \/ content.children = <<>>
  \/ permalink = <<>>

\* mutant: the section url survives from one call to the next
addDocCarriesSection(docs, children, permalink) ==
  AddChildren([docs |-> docs,
               sectionUrl |-> IF docs = <<>> THEN NoUrl ELSE docs[Len(docs)].url],
              children, permalink).docs

\* mutant: each call starts from an empty registry
addDocFresh(docs, children, permalink) ==
  AddChildren([docs |-> <<>>, sectionUrl |-> NoUrl], children, permalink).docs

\* addDoc past its argument checks (Index.js 221-237)
addDoc(docs, children, permalink) ==
  AddChildren([docs |-> docs, sectionUrl |-> NoUrl], children, permalink).docs

\* mutant: the entries of a section numbered from its title on, one too low
DocEntriesFromZero(doc) ==
  << [url |-> MakeRef(doc.url, 0), content |-> doc.title] >>
  \o [i \in 1..Len(doc.nodes) |->
        [url |-> MakeRef(doc.url, i - 1), content |-> doc.nodes[i]]]

\* the entries save adds for one section (Index.js 264-279); i is index + 1
DocEntries(doc) ==
  << [url |-> MakeRef(doc.url, 0), content |-> doc.title] >>
  \o [i \in 1..Len(doc.nodes) |->
        [url |-> MakeRef(doc.url, i), content |-> doc.nodes[i]]]

\* the entries save adds to the index, in order (Index.js 264-280)
RECURSIVE SaveEntries(_)
SaveEntries(docs) ==
  IF docs = <<>> THEN <<>>
  ELSE DocEntries(Head(docs)) \o SaveEntries(Tail(docs))

(***************************************************************************)
(* State                                                                   *)
(***************************************************************************)
VARIABLES
  hlText,      \* highlight: the field text
  hlMetadata,  \* highlight: the match metadata of the field
  hlResult,    \* highlight: result of _nodeToMarks
  hlPc,        \* highlight: "init" | "done"
  qDocs,       \* query: index.docs of the loaded artifact
  qHits,       \* query: the flat matches of index.index.search(term)
  qLimit,      \* query: the limit argument
  qGroups,     \* query: the re-nested queryResults
  qOutput,     \* query: the list search returns
  qPc,         \* query: "init" | "done"
  fs,          \* the index files on disk, by path
  indexesCache,\* Search.indexesCache, by path
  calls,       \* the calls in flight on the Search singleton, by slot
  resolved,    \* the call whose promise resolved in the last step, if any
  ncalls,      \* number of calls made
  nwrites,     \* number of changes the environment made to the files
  cleared,     \* the paths no search was called on since the last clearCache
  idxDocs,     \* index builder: the registry this.docs
  idxFile,     \* index builder: the artifact save wrote at indexPath
  idxLast,     \* index builder: outcome of the last call
  nadds,       \* index builder: number of addDoc calls made
  refUrl,      \* reference: the section url
  refLevel,    \* reference: the level N
  refParsed,   \* reference: what _getUrlAndNodeIndex returns for the ref
  refPc,       \* reference: "init" | "done"
  adContent,   \* addDoc: the content argument
  adPermalink, \* addDoc: the permalink argument
  adBefore,    \* addDoc: this.docs before the call
  adDocs,      \* addDoc: this.docs
  adOutcome,   \* addDoc: "init" | "added" | "threw"
  rtDocs,      \* round trip: the registry of the Index instance
  rtSaved,     \* round trip: registry and in-memory index of the last save
  rtFile,      \* round trip: the file at indexPath
  rtCache,     \* round trip: the entry of indexPath in Search.indexesCache
  rtQuery,     \* round trip: the last search, its term and matched refs
  rtSteps,     \* round trip: number of addDoc and save calls made
  dlFile,      \* direct load: what the file at indexPath holds
  readIndex,   \* direct load: Search.readIndex
  dlLoads,     \* direct load: the load() calls in flight
  dlSucceeded, \* direct load: a load() of the instance has succeeded
  dlLoaded,    \* direct load: the load() that settled in the last step
  dlSearched,  \* direct load: the search(term) made in the last step
  dlSteps,     \* direct load: number of calls and file changes made
  dsLoaded,    \* datastore: Db.loaded
  dsData,      \* datastore: the versions of the zone in Db.data, with their docs
  dsDisk,      \* datastore: the doc files on disk, by version and json path
  dsSaves,     \* datastore: the saveDoc calls waiting for fs.outputJSON
  dsRemoving,  \* datastore: the version directories fs.remove is still deleting
  dsLast,      \* datastore: what the call or continuation of the last step did
  dsCalls,     \* datastore: number of saveDoc and syncVersions calls made
  verName,     \* version: Version.name
  verDocsPath, \* version: Version.docsPath
  verDocs,     \* version: Version.docs, by json path
  isFrozen,    \* version: Version.isFrozen
  verDisk,     \* version: the json files under the base path of the version
  verIo,       \* version: the outputJson and remove operations still running
  verCleaned,  \* version: clean() has been called
  verLast,     \* version: what the call of the last step did
  verCalls,    \* version: number of calls made
  scHeap,      \* sync: the Version instances created so far, by identity
  scTracked,   \* sync: Datastore._trackedVersions, a list of instances
  scMetaData,  \* sync: Datastore.metaData
  scDiff,      \* sync: the diff the last syncConfig returned
  scLast,      \* sync: the config of the last syncConfig and the list tracked before it
  scCalls,     \* sync: number of syncConfig calls made
  dbFile,      \* db: what the meta file at Db.filePath holds
  dbLoaded,    \* db: Db.loaded
  dbData,      \* db: Db.data, the meta data and the zones
  dbLoads,     \* db: the load() calls in flight
  dbCompleted, \* db: a load() of the instance has completed
  dbLast,      \* db: what the call of the last step did
  dbCalls      \* db: number of calls and file changes made

hlVars == <<hlText, hlMetadata, hlResult, hlPc>>
qVars == <<qDocs, qHits, qLimit, qGroups, qOutput, qPc>>
cVars == <<fs, indexesCache, calls, resolved, ncalls, nwrites, cleared>>
iVars == <<idxDocs, idxFile, idxLast, nadds>>
rVars == <<refUrl, refLevel, refParsed, refPc>>
adVars == <<adContent, adPermalink, adBefore, adDocs, adOutcome>>
rtVars == <<rtDocs, rtSaved, rtFile, rtCache, rtQuery, rtSteps>>
dlVars == <<dlFile, readIndex, dlLoads, dlSucceeded, dlLoaded, dlSearched, dlSteps>>
dsVars == <<dsLoaded, dsData, dsDisk, dsSaves, dsRemoving, dsLast, dsCalls>>
verVars == <<verName, verDocsPath, verDocs, isFrozen, verDisk, verIo, verCleaned, verLast, verCalls>>
scVars == <<scHeap, scTracked, scMetaData, scDiff, scLast, scCalls>>
dbVars == <<dbFile, dbLoaded, dbData, dbLoads, dbCompleted, dbLast, dbCalls>>
vars == <<hlText, hlMetadata, hlResult, hlPc,
          qDocs, qHits, qLimit, qGroups, qOutput, qPc,
          fs, indexesCache, calls, resolved, ncalls, nwrites, cleared,
          idxDocs, idxFile, idxLast, nadds,
          refUrl, refLevel, refParsed, refPc,
          adContent, adPermalink, adBefore, adDocs, adOutcome,
          rtDocs, rtSaved, rtFile, rtCache, rtQuery, rtSteps,
          dlFile, readIndex, dlLoads, dlSucceeded, dlLoaded, dlSearched, dlSteps,
          dsLoaded, dsData, dsDisk, dsSaves, dsRemoving, dsLast, dsCalls,
          verName, verDocsPath, verDocs, isFrozen, verDisk, verIo, verCleaned,
          verLast, verCalls,
          scHeap, scTracked, scMetaData, scDiff, scLast, scCalls,
          dbFile, dbLoaded, dbData, dbLoads, dbCompleted, dbLast, dbCalls>>

\* the variables an action of one specification leaves alone
exceptHl == <<qVars, cVars, iVars, rVars, adVars, rtVars, dlVars, dsVars, verVars, scVars, dbVars>>
exceptQ == <<hlVars, cVars, iVars, rVars, adVars, rtVars, dlVars, dsVars, verVars, scVars, dbVars>>
exceptC == <<hlVars, qVars, iVars, rVars, adVars, rtVars, dlVars, dsVars, verVars, scVars, dbVars>>
exceptI == <<hlVars, qVars, cVars, rVars, adVars, rtVars, dlVars, dsVars, verVars, scVars, dbVars>>
exceptR == <<hlVars, qVars, cVars, iVars, adVars, rtVars, dlVars, dsVars, verVars, scVars, dbVars>>
exceptAd == <<hlVars, qVars, cVars, iVars, rVars, rtVars, dlVars, dsVars, verVars, scVars, dbVars>>
exceptRt == <<hlVars, qVars, cVars, iVars, rVars, adVars, dlVars, dsVars, verVars, scVars, dbVars>>
exceptDl == <<hlVars, qVars, cVars, iVars, rVars, adVars, rtVars, dsVars, verVars, scVars, dbVars>>
exceptDs == <<hlVars, qVars, cVars, iVars, rVars, adVars, rtVars, dlVars, verVars, scVars, dbVars>>
exceptVer == <<hlVars, qVars, cVars, iVars, rVars, adVars, rtVars, dlVars, dsVars, scVars, dbVars>>
exceptSc == <<hlVars, qVars, cVars, iVars, rVars, adVars, rtVars, dlVars, dsVars, verVars, dbVars>>
exceptDb == <<hlVars, qVars, cVars, iVars, rVars, adVars, rtVars, dlVars, dsVars, verVars, scVars>>

(***************************************************************************)
(* Highlight specification: _nodeToMarks applied to every bounded input    *)
(***************************************************************************)
\* a position lunr can record for a text: a non-empty span inside the text
PositionsOf(text) ==
  {p \in (0..MaxTextLen) \X (1..MaxTextLen) : p[1] + p[2] <= Len(text)}

\* the positions of one term are the spans of its occurrences, in text order
Ascending(position) ==
  \A i \in 1..(Len(position) - 1) :
     position[i][1] + position[i][2] <= position[i + 1][1]

KeywordsOf(text) ==
  {k \in [hasContent : BOOLEAN, position : SeqUpTo(PositionsOf(text), MaxPos)] :
     Ascending(k.position)}

\* two terms are different tokens of the text: their spans do not overlap
Disjoint(p, q) == p[1] + p[2] <= q[1] \/ q[1] + q[2] <= p[1]

MetadataOf(text) ==
  {Metadata(k) : k \in
     {ks \in SeqUpTo(KeywordsOf(text), MaxTerms) :
        \A i, j \in 1..Len(ks) : i < j =>
           \A x \in 1..Len(ks[i].position), y \in 1..Len(ks[j].position) :
              Disjoint(ks[i].position[x], ks[j].position[y])}}

HlInit ==
  /\ hlText \in SeqUpTo(Chars, MaxTextLen)
  /\ hlMetadata \in {NoMetadata} \cup MetadataOf(hlText)
  /\ hlResult = [score |-> 0, marks |-> <<>>]
  /\ hlPc = "init"

HlIdle ==
  /\ hlText = <<>>
  /\ hlMetadata = NoMetadata
  /\ hlResult = [score |-> 0, marks |-> <<>>]
  /\ hlPc = "idle"

HlNodeToMarks ==
  /\ hlPc = "init"
  /\ hlResult' = _nodeToMarks(1, hlMetadata, hlText)
  /\ hlPc' = "done"
  /\ UNCHANGED <<hlText, hlMetadata>>
  /\ UNCHANGED exceptHl

(***************************************************************************)
(* Query specification: the re-nesting of search applied to every bounded  *)
(* registry, list of flat matches and limit                                *)
(***************************************************************************)
MaxHits == 3
MaxLimit == 2

Urls == { <<"/a">>, <<"/a", "#s">>, <<"/b">> }

\* the section the index builder registers for a url
SectionOf(url) ==
  [title |-> <<"a">>, nodes |-> << <<"a", "b">>, <<"b">> >>, url |-> url]

\* the field text of an index entry
FieldText(url, n) ==
  IF n = 0 THEN SectionOf(url).title ELSE SectionOf(url).nodes[n]

Refs == {MakeRef(u, n) : u \in Urls, n \in 0..2}

\* hits of the underlying search: distinct refs, in descending score order,
\* the (single) matched term at the start of the field text
HitsOf(refs) ==
  [i \in 1..Len(refs) |->
     [ref |-> refs[i],
      score |-> Len(refs) - i + 1,
      metadata |-> Metadata(<< [hasContent |-> TRUE, position |-> << <<0, 1>> >>] >>)]]

QInit ==
  /\ \E D \in SUBSET Urls : qDocs = [u \in D |-> SectionOf(u)]
  /\ \E refs \in SeqUpTo(Refs, MaxHits) :
        /\ \A i, j \in 1..Len(refs) : i # j => refs[i] # refs[j]
        /\ qHits = HitsOf(refs)
  /\ qLimit \in 0..MaxLimit
  /\ qGroups = <<>>
  /\ qOutput = <<>>
  /\ qPc = "init"

QIdle ==
  /\ qDocs = <<>>
  /\ qHits = <<>>
  /\ qLimit = 0
  /\ qGroups = <<>>
  /\ qOutput = <<>>
  /\ qPc = "idle"

QSearch ==
  /\ qPc = "init"
  /\ qGroups' = queryResults(qHits, qLimit, qDocs)
  /\ qOutput' = SearchOutput(queryResults(qHits, qLimit, qDocs))
  /\ qPc' = "done"
  /\ UNCHANGED <<qDocs, qHits, qLimit>>
  /\ UNCHANGED exceptQ

(***************************************************************************)
(* Query cache specification (Search.js 167-290)                           *)
(*                                                                         *)
(* Calls of search, revalidate and clearCache on the Search singleton run  *)
(* on one event loop: a call runs until it awaits file I/O, the I/O reads  *)
(* the disk at some later moment, and the continuation runs later still.   *)
(* The environment writes and removes index files at any moment.           *)
(***************************************************************************)
MaxCalls == 3
MaxInFlight == 2
MaxWrites == 1
MaxTime == 2
MaxSize == 2

Paths == {"p1", "p2"}
Valid == {"A", "B"}
Invalid == {"unparsable", "nokeys"}

\* a file content is a valid artifact, is not JSON ("unparsable"), or is JSON
\* without the docs or the index key ("nokeys")
NoFile == [exists |-> FALSE, mtime |-> 0, size |-> 0, content |-> "none"]
Files == {NoFile} \cup
         [exists : {TRUE}, mtime : 1..MaxTime, size : 1..MaxSize,
          content : Valid \cup Invalid]

\* the artifact a valid file content parses to, with the flat matches the
\* loaded index returns for the term searched
Artifact(content) ==
  IF content = "A"
  THEN [docs |-> [u \in {<<"/a">>} |-> SectionOf(u)],
        hits |-> HitsOf(<< MakeRef(<<"/a">>, 2), MakeRef(<<"/a">>, 0),
                           MakeRef(<<"/a">>, 1) >>)]
  ELSE [docs |-> [u \in {<<"/b">>} |-> SectionOf(u)],
        hits |-> HitsOf(<< MakeRef(<<"/b">>, 1) >>)]

NoEntry == [present |-> FALSE, content |-> "none", mtime |-> 0, size |-> 0]
Entry(content, mtime, size) ==
  [present |-> TRUE, content |-> content, mtime |-> mtime, size |-> size]

\* getStats (Search.js 210-217)
getStats(file) ==
  IF file.exists THEN [mtime |-> file.mtime, size |-> file.size]
  ELSE [mtime |-> 0, size |-> 0]

\* mutant: load calls loadIndex at every search
NeedsLoadAlways(cached, stat) == TRUE

\* the condition of load under which loadIndex is called (Search.js 260)
NeedsLoad(cached, stat) ==
  ~cached.present \/ (stat.mtime > cached.mtime \/ stat.size # cached.size)

\* what readJSON observes of the file
ReadJSON(file) == IF file.exists THEN file.content ELSE "enoent"

\* mutant: loadIndex without its try/catch
loadIndexNoCatch(read, mtime, size) ==
  IF read \in Valid
  THEN [set |-> TRUE, entry |-> Entry(read, mtime, size), threw |-> FALSE]
  ELSE [set |-> FALSE, entry |-> NoEntry, threw |-> TRUE]

\* loadIndex after the read (Search.js 185-198): the entry it sets, if any
loadIndex(read, mtime, size) ==
  IF read \in Valid
  THEN [set |-> TRUE, entry |-> Entry(read, mtime, size), threw |-> FALSE]
  ELSE [set |-> FALSE, entry |-> NoEntry, threw |-> FALSE]

\* mutant: revalidateIndex never deletes
EvictsNever(stat) == FALSE

\* the condition of revalidateIndex under which the entry is deleted
Evicts(stat) == stat.mtime = 0

\* a search that answers with the empty list
SearchResultEmpty(index, limit) == <<>>

\* the part of search after load (Search.js 288-344)
SearchResult(index, limit) ==
  IF ~index.present THEN <<>>
  ELSE SearchOutput(queryResults(Artifact(index.content).hits, limit,
                                 Artifact(index.content).docs))

NoTasks == [f \in Paths |-> "none"]
NoStat == [mtime |-> 0 - 1, size |-> 0 - 1]
NoCall ==
  [kind |-> "none", pc |-> "none", path |-> "none", limit |-> 0,
   cached |-> NoEntry, stat |-> NoStat, read |-> "none", loaded |-> FALSE,
   index |-> NoEntry, result |-> <<>>, threw |-> FALSE,
   tasks |-> NoTasks, before |-> [f \in Paths |-> NoEntry],
   alone |-> FALSE, absent |-> FALSE,
   seen |-> "none", next |-> FALSE, quiet |-> FALSE, had |-> FALSE]

\* no clearCache has been called, or a search was called on every path since
NotCleared == [paths |-> {}, quiet |-> FALSE, had |-> {}]

\* the cache that keeps its entries
clearCacheKeeps(cache) == cache

\* the cache clearCache leaves (Search.js 167-169)
clearCache(cache) == [f \in Paths |-> NoEntry]

\* revalidate (Search.js 245-247): one revalidateIndex per cached path, each
\* with its stat issued
StartSweep(cache) == [f \in Paths |-> IF cache[f].present THEN "stat" ELSE "none"]

SweepDone(c) == \A f \in Paths : c.tasks[f] \in {"none", "done"}

\* the slot of the next call: the lowest one that holds no call
Free(p) == calls[p].kind = "none" /\ \A q \in 1..(p - 1) : calls[q].kind # "none"

\* a step of call p, or of the environment (p = 0), overlaps every other call
Overlap(cs, p) ==
  [q \in DOMAIN cs |-> IF q = p THEN cs[q] ELSE [cs[q] EXCEPT !.alone = FALSE]]

\* a sweep that has run its last revalidateIndex leaves its slot: the promise
\* of revalidate() resolves, the sweep of a search just ends
Settle(cs, p) ==
  [cs EXCEPT ![p] = IF cs[p].kind \in {"sweep", "revalidate"} /\ SweepDone(cs[p])
                    THEN NoCall ELSE cs[p]]
Resolves(cs, p) ==
  IF cs[p].kind = "revalidate" /\ SweepDone(cs[p]) THEN cs[p] ELSE NoCall

\* before the first call each index file is absent or as Index.save wrote it
CInit ==
  /\ fs \in [Paths -> {NoFile} \cup {f \in Files : f.content = "A" /\ f.size = 1}]
  /\ indexesCache = [f \in Paths |-> NoEntry]
  /\ calls = [p \in 1..MaxInFlight |-> NoCall]
  /\ resolved = NoCall
  /\ ncalls = 0
  /\ nwrites = 0
  /\ cleared = NotCleared

CIdle ==
  /\ fs = [f \in Paths |-> NoFile]
  /\ indexesCache = [f \in Paths |-> NoEntry]
  /\ calls = <<>>
  /\ resolved = NoCall
  /\ ncalls = 0
  /\ nwrites = 0
  /\ cleared = NotCleared

\* the environment writes an index file (Index.save or any other writer),
\* as one of at most max changes of the files
Write(path, file, max) ==
  /\ nwrites < max
  /\ file.exists
  /\ file # fs[path]
  /\ fs' = [fs EXCEPT ![path] = file]
  /\ nwrites' = nwrites + 1
  /\ calls' = [q \in DOMAIN calls |->
                 [calls[q] EXCEPT !.alone = FALSE,
                                  !.absent = @ /\ calls[q].path # path]]
  /\ resolved' = NoCall
  /\ UNCHANGED <<indexesCache, ncalls, cleared>>
  /\ UNCHANGED exceptC

WriteFile(path, file) == Write(path, file, MaxWrites)

\* the environment removes an index file, as one of at most max changes
Remove(path, max) ==
  /\ nwrites < max
  /\ fs[path].exists
  /\ fs' = [fs EXCEPT ![path] = NoFile]
  /\ nwrites' = nwrites + 1
  /\ calls' = Overlap(calls, 0)
  /\ resolved' = NoCall
  /\ UNCHANGED <<indexesCache, ncalls, cleared>>
  /\ UNCHANGED exceptC

RemoveFile(path) == Remove(path, MaxWrites)

\* search(indexPath, term, limit) up to the await of getStats in load
\* (Search.js 276-277, 257-258)
SearchCall(p, path, limit) ==
  /\ ncalls < MaxCalls
  /\ Free(p)
  /\ calls' = Overlap([calls EXCEPT ![p] =
                 [NoCall EXCEPT !.kind = "search", !.pc = "stat",
                                !.path = path, !.limit = limit,
                                !.cached = indexesCache[path],
                                !.alone = \A q \in DOMAIN calls : calls[q].kind = "none",
                                !.absent = ~fs[path].exists /\ ~indexesCache[path].present,
                                !.next = path \in cleared.paths,
                                !.quiet = cleared.quiet,
                                !.had = path \in cleared.had]],
               p)
  /\ ncalls' = ncalls + 1
  /\ resolved' = NoCall
  /\ cleared' = IF cleared.paths \ {path} = {} THEN NotCleared
                ELSE [cleared EXCEPT !.paths = @ \ {path}]
  /\ UNCHANGED <<fs, indexesCache, nwrites>>
  /\ UNCHANGED exceptC

\* fs.stat of load reads the disk; load goes on to call loadIndex, up to the
\* await of readJSON, or to return the cached entry (Search.js 258-262)
SearchStat(p) ==
  /\ calls[p].kind = "search" /\ calls[p].pc = "stat"
  /\ LET stat == getStats(fs[calls[p].path])
         load == NeedsLoad(calls[p].cached, stat)
     IN calls' = Overlap([calls EXCEPT ![p].stat = stat,
                                       ![p].seen = ReadJSON(fs[calls[p].path]),
                                       ![p].loaded = load,
                                       ![p].pc = IF load THEN "read" ELSE "resume"], p)
  /\ resolved' = NoCall
  /\ UNCHANGED <<fs, indexesCache, ncalls, nwrites, cleared>>
  /\ UNCHANGED exceptC

\* fs.readJSON of loadIndex reads the disk (Search.js 186)
SearchRead(p) ==
  /\ calls[p].kind = "search" /\ calls[p].pc = "read"
  /\ calls' = Overlap([calls EXCEPT ![p].read = ReadJSON(fs[calls[p].path]),
                                    ![p].pc = "resume"], p)
  /\ resolved' = NoCall
  /\ UNCHANGED <<fs, indexesCache, ncalls, nwrites, cleared>>
  /\ UNCHANGED exceptC

\* the continuation of search: the rest of loadIndex, the return of load,
\* the start of the revalidation sweep and the result (Search.js 187-198,
\* 264, 283-344); the promise of search resolves (or rejects), its sweep
\* goes on in the slot
SearchResume(p) ==
  /\ calls[p].kind = "search" /\ calls[p].pc = "resume"
  /\ LET c == calls[p]
         out == IF c.loaded THEN loadIndex(c.read, c.stat.mtime, c.stat.size)
                ELSE [set |-> FALSE, entry |-> NoEntry, threw |-> FALSE]
         cache == IF out.set THEN [indexesCache EXCEPT ![c.path] = out.entry]
                  ELSE indexesCache
         index == cache[c.path]
         tasks == IF out.threw THEN NoTasks ELSE StartSweep(cache)
     IN /\ indexesCache' = cache
        /\ resolved' = [c EXCEPT !.index = index,
                                 !.threw = out.threw,
                                 !.tasks = tasks,
                                 !.result = IF out.threw THEN <<>>
                                            ELSE SearchResult(index, c.limit),
                                 !.pc = "done"]
        /\ calls' = Settle(Overlap([calls EXCEPT ![p] =
                        [NoCall EXCEPT !.kind = "sweep", !.tasks = tasks]], p), p)
  /\ UNCHANGED <<fs, ncalls, nwrites, cleared>>
  /\ UNCHANGED exceptC

\* revalidate() called on its own (Search.js 245-247)
RevalidateCall(p) ==
  /\ ncalls < MaxCalls
  /\ Free(p)
  /\ LET c == [NoCall EXCEPT !.kind = "revalidate", !.pc = "done",
                             !.tasks = StartSweep(indexesCache),
                             !.before = indexesCache,
                             !.alone = \A q \in DOMAIN calls : calls[q].kind = "none"]
         cs == Overlap([calls EXCEPT ![p] = c], p)
     IN /\ calls' = Settle(cs, p)
        /\ resolved' = Resolves(cs, p)
  /\ ncalls' = ncalls + 1
  /\ UNCHANGED <<fs, indexesCache, nwrites, cleared>>
  /\ UNCHANGED exceptC

\* fs.stat of revalidateIndex reads the disk (Search.js 231, 210-217); when the
\* file is there the continuation has nothing to do
RevalidateStat(p, path) ==
  /\ calls[p].tasks[path] = "stat"
  /\ LET cs == Overlap([calls EXCEPT ![p].tasks[path] =
                  IF Evicts(getStats(fs[path])) THEN "evict" ELSE "done"], p)
     IN /\ calls' = Settle(cs, p)
        /\ resolved' = Resolves(cs, p)
  /\ UNCHANGED <<fs, indexesCache, ncalls, nwrites, cleared>>
  /\ UNCHANGED exceptC

\* the continuation of revalidateIndex deletes the entry (Search.js 232-234)
RevalidateEvict(p, path) ==
  /\ calls[p].tasks[path] = "evict"
  /\ indexesCache' = [indexesCache EXCEPT ![path] = NoEntry]
  /\ LET cs == Overlap([calls EXCEPT ![p].tasks[path] = "done"], p)
     IN /\ calls' = Settle(cs, p)
        /\ resolved' = Resolves(cs, p)
  /\ UNCHANGED <<fs, ncalls, nwrites, cleared>>
  /\ UNCHANGED exceptC

\* clearCache() (Search.js 167-169)
ClearCache ==
  /\ ncalls < MaxCalls
  /\ indexesCache' = clearCache(indexesCache)
  /\ calls' = Overlap(calls, 0)
  /\ resolved' = [NoCall EXCEPT !.kind = "clearCache", !.pc = "done"]
  /\ ncalls' = ncalls + 1
  /\ cleared' = [paths |-> Paths,
                 quiet |-> \A q \in DOMAIN calls : calls[q].kind # "search",
                 had |-> {f \in Paths : indexesCache[f].present}]
  /\ UNCHANGED <<fs, nwrites>>
  /\ UNCHANGED exceptC



CNext ==
  \/ \E path \in Paths, file \in Files : WriteFile(path, file)
  \/ \E path \in Paths : RemoveFile(path)
  \/ \E p \in 1..MaxInFlight, path \in Paths, limit \in {0} : SearchCall(p, path, limit)
  \/ \E p \in 1..MaxInFlight : SearchStat(p)
  \/ \E p \in 1..MaxInFlight : SearchRead(p)
  \/ \E p \in 1..MaxInFlight : SearchResume(p)
  \/ \E p \in 1..MaxInFlight : RevalidateCall(p)
  \/ \E p \in 1..MaxInFlight, path \in Paths : RevalidateStat(p, path)
  \/ \E p \in 1..MaxInFlight, path \in Paths : RevalidateEvict(p, path)
  \/ ClearCache

(***************************************************************************)
(* Churn specification: the same Search instance serving one index file    *)
(* that is removed, re-created and rewritten while searches and sweeps are  *)
(* in flight.  Every change of the file gives it a later mtime than any it  *)
(* had before, as a file system clock does.                                 *)
(***************************************************************************)
MaxChurn == 2

ChurnPaths == {"p1"}
ChurnContents == Valid \cup {"unparsable"}

\* the file a writer leaves at its turn: mtime is the time of the write
Written(content, size) ==
  [exists |-> TRUE, mtime |-> nwrites + 2, size |-> size, content |-> content]

\* before the first call the file is absent or as Index.save wrote it at time 1
ChurnInit ==
  /\ CInit
  /\ \A f \in Paths : f \notin ChurnPaths => fs[f] = NoFile
  /\ \A f \in ChurnPaths : fs[f].exists => fs[f].mtime = 1

ChurnWrite(path, content, size) == Write(path, Written(content, size), MaxChurn)

ChurnRemove(path) == Remove(path, MaxChurn)

ChurnNext ==
  \/ \E path \in ChurnPaths, content \in ChurnContents, size \in 1..MaxSize :
       ChurnWrite(path, content, size)
  \/ \E path \in ChurnPaths : ChurnRemove(path)
  \/ \E p \in 1..MaxInFlight, path \in ChurnPaths, limit \in {0} : SearchCall(p, path, limit)
  \/ \E p \in 1..MaxInFlight : SearchStat(p)
  \/ \E p \in 1..MaxInFlight : SearchRead(p)
  \/ \E p \in 1..MaxInFlight : SearchResume(p)
  \/ \E p \in 1..MaxInFlight : RevalidateCall(p)
  \/ \E p \in 1..MaxInFlight, path \in ChurnPaths : RevalidateStat(p, path)
  \/ \E p \in 1..MaxInFlight, path \in ChurnPaths : RevalidateEvict(p, path)

(***************************************************************************)
(* Index builder specification: addDoc and save on one Index instance      *)
(***************************************************************************)
MaxChildren == 3
MaxAdds == 2

Permalinks == {<<"/a">>, <<"/b">>}

Heading(tag, href, title) ==
  Element(tag, {}, "", <<>>, << Element("a", {}, href, <<>>, <<>>), Text(title) >>)
Paragraph(text) == Element("p", {}, "", <<>>, << Text(text) >>)

\* the children addDoc is given: headings, paragraphs, a code block, a list of
\* two items and a table row with a header cell
Kids ==
  { Heading("h1", "#a", <<"a">>),
    Heading("h2", "#s", <<"b">>),
    Paragraph(<<"b">>),
    Paragraph(<<>>),
    Element("pre", {}, "", <<>>, << Text(<<"a">>) >>),
    Element("ul", {}, "", <<>>,
            << Element("li", {}, "", <<>>, << Text(<<"a">>) >>),
               Element("li", {}, "", <<>>, << Paragraph(<<"b">>) >>) >>),
    Element("tr", {}, "", <<>>,
            << Element("td", {}, "", <<>>, << Text(<<"a">>) >>),
               Element("th", {}, "", <<>>, << Text(<<"a">>) >>),
               Element("td", {}, "", <<>>, << Text(<<"b">>) >>) >>) }

NoIndexFile == [written |-> FALSE, index |-> <<>>, docs |-> <<>>]

\* the state after new Index(indexPath) (Index.js 82-108)
IdxInit ==
  /\ idxDocs = <<>>
  /\ idxFile = NoIndexFile
  /\ idxLast = "none"
  /\ nadds = 0

IdxIdle == IdxInit

\* addDoc(content, permalink) (Index.js 216-238): ow rejects an empty list of
\* children and an empty permalink
AddDoc(children, permalink) ==
  /\ nadds < MaxAdds
  /\ nadds' = nadds + 1
  /\ IF Rejects(Content(children), permalink)
     THEN idxLast' = "threw" /\ UNCHANGED idxDocs
     ELSE /\ idxDocs' = addDoc(idxDocs, children, permalink)
          /\ idxLast' = "added"
  /\ UNCHANGED idxFile
  /\ UNCHANGED exceptI

\* save() (Index.js 247-289)
Save ==
  /\ idxFile' = [written |-> TRUE, index |-> SaveEntries(idxDocs), docs |-> idxDocs]
  /\ idxLast' = "saved"
  /\ UNCHANGED <<idxDocs, nadds>>
  /\ UNCHANGED exceptI

IdxNext ==
  \/ \E children \in SeqUpTo(Kids, MaxChildren), permalink \in Permalinks \cup {NoUrl} :
       AddDoc(children, permalink)
  \/ Save

(***************************************************************************)
(* Reference specification: the ref save builds for a section url and a    *)
(* level, parsed back by _getUrlAndNodeIndex                               *)
(***************************************************************************)
MaxUrlLen == 3

\* the tokens of a permalink and of the anchor of a heading
UrlTokens == {"/a", "#s", Lvl, "1"}

\* the section urls of addDoc: a non-empty permalink, with or without anchor
SectionUrls == SeqUpTo(UrlTokens, MaxUrlLen) \ {<<>>}

RefInit ==
  /\ refUrl \in SectionUrls
  /\ refLevel \in 0..MaxLevel
  /\ refParsed = [url |-> <<>>, nodeIndex |-> NaN]
  /\ refPc = "init"

RefIdle ==
  /\ refUrl = <<>>
  /\ refLevel = 0
  /\ refParsed = [url |-> <<>>, nodeIndex |-> NaN]
  /\ refPc = "init"

\* save builds the ref (Index.js 268-279), search parses it (Search.js 303)
RefRoundTrip ==
  /\ refPc = "init"
  /\ refParsed' = _getUrlAndNodeIndex(MakeRef(refUrl, refLevel))
  /\ refPc' = "done"
  /\ UNCHANGED <<refUrl, refLevel>>
  /\ UNCHANGED exceptR

(***************************************************************************)
(* addDoc specification: addDoc applied to every bounded content and       *)
(* permalink, on an empty registry and on one that holds sections          *)
(***************************************************************************)
\* text that only filtered elements hold
Hidden == <<"x">>

Span(className, text) == Element("span", className, "", <<>>, << Text(text) >>)

\* top-level children: headings of two levels, a paragraph, a paragraph with
\* a highlighter span, a code block, a macro container with a code block and
\* a generated table of contents, and a table row with a code block in a cell
BodyKids ==
  { Heading("h1", "#a", <<"a">>),
    Heading("h2", "#s", <<"b">>),
    Heading("h3", "#s", <<"c">>),
    Paragraph(<<"b">>),
    Element("p", {}, "", <<>>, << Text(<<"a">>), Span({"dimer-highlight"}, Hidden) >>),
    Element("pre", {}, "", <<>>, << Text(Hidden) >>),
    Element("div", {}, "", <<>>,
            << Element("pre", {}, "", <<>>, << Text(Hidden) >>),
               Paragraph(<<"a">>),
               Element("ul", {"toc-container"}, "", <<>>,
                       << Element("li", {}, "", <<>>, << Text(Hidden) >>) >>),
               Element("ul", {}, "", <<>>,
                       << Element("li", {}, "", <<>>, << Text(<<"b">>) >>) >>) >>),
    Element("tr", {}, "", <<>>,
            << Element("th", {}, "", <<>>, << Text(Hidden) >>),
               Element("td", {}, "", <<>>,
                       << Text(<<"a">>),
                          Element("pre", {}, "", <<>>, << Text(Hidden) >>) >>) >>) }

\* registries addDoc is called on
Registries ==
  { <<>>,
    << [title |-> <<"a">>, nodes |-> << <<"b">> >>, url |-> <<"/a">>],
       [title |-> <<"b">>, nodes |-> <<>>, url |-> <<"/b", "#s">>] >> }

AdInit ==
  /\ adContent \in {NoChildrenKey} \cup {Content(c) : c \in SeqUpTo(BodyKids, MaxChildren)}
  /\ adPermalink \in Permalinks \cup {<<>>}
  /\ adBefore \in Registries
  /\ adDocs = adBefore
  /\ adOutcome = "init"

AdIdle ==
  /\ adContent = NoChildrenKey
  /\ adPermalink = <<>>
  /\ adBefore = <<>>
  /\ adDocs = <<>>
  /\ adOutcome = "init"

\* addDoc(content, permalink) (Index.js 216-238)
AdAddDoc ==
  /\ adOutcome = "init"
  /\ IF Rejects(adContent, adPermalink)
     THEN adOutcome' = "threw" /\ UNCHANGED adDocs
     ELSE /\ adDocs' = addDoc(adDocs, adContent.children, adPermalink)
          /\ adOutcome' = "added"
  /\ UNCHANGED <<adContent, adPermalink, adBefore>>
  /\ UNCHANGED exceptAd

(***************************************************************************)
(* Round trip specification: an Index instance fills its registry and      *)
(* saves it at indexPath, the Search singleton loads and queries the file. *)
(* Each call runs to its end before the next one starts.  A save takes     *)
(* time: the file it writes is newer than the one it replaces.             *)
(***************************************************************************)
MaxSteps == 4

Terms == {"a", "b"}

\* the refs of the entries whose content holds the term
Matching(entries, term) ==
  {entries[k].url : k \in {j \in 1..Len(entries) :
                             \E c \in 1..Len(entries[j].content) : entries[j].content[c] = term}}

\* the index lunr builds from the entries added to it (Index.js 250-282)
BuildIndex(entries) ==
  [refs |-> {entries[k].url : k \in 1..Len(entries)},
   postings |-> [t \in Terms |-> Matching(entries, t)]]

\* index.toJSON(): the field vectors by ref and the inverted index as a list
\* of term and ref pairs (Index.js 286)
IndexToJSON(index) ==
  [fieldVectors |-> index.refs,
   invertedIndex |-> {<<t, r>> : t \in Terms, r \in index.refs} \cap
                     {p \in Terms \X index.refs : p[2] \in index.postings[p[1]]}]

\* lunr.Index.load(indexJSON.index) (Search.js 193)
IndexLoad(json) ==
  [refs |-> json.fieldVectors,
   postings |-> [t \in Terms |-> {r \in json.fieldVectors : <<t, r>> \in json.invertedIndex}]]

\* index.search(term): the refs of the matches
IndexSearch(index, term) == index.postings[term]

\* the object this.docs as JSON keeps it: sections by url
DocsToJSON(docs) ==
  [u \in {docs[i].url : i \in 1..Len(docs)} |->
     docs[CHOOSE i \in 1..Len(docs) : docs[i].url = u]]

\* the bytes outputJSON writes, by their number
RECURSIVE SizeOf(_)
SizeOf(entries) ==
  IF entries = <<>> THEN 1
  ELSE 1 + Len(Head(entries).url) + Len(Head(entries).content) + SizeOf(Tail(entries))

NoJSON == [parses |-> FALSE, hasDocs |-> FALSE, hasIndex |-> FALSE]

\* fs.outputJSON(this.indexPath, { index: index.toJSON(), docs: this.docs })
OutputJSON(index, docs) ==
  [parses |-> TRUE, hasDocs |-> TRUE, hasIndex |-> TRUE,
   docs |-> DocsToJSON(docs), index |-> IndexToJSON(index)]

\* mutant: loadIndex takes an empty docs object for a missing one
LoadsNonEmpty(json) ==
  json.parses /\ json.hasDocs /\ json.hasIndex /\ DOMAIN json.docs # {}

\* loadIndex goes on to set the cache entry (Search.js 186-190)
Loads(json) == json.parses /\ json.hasDocs /\ json.hasIndex

\* contents given to addDoc
RtContents ==
  { << Heading("h1", "#a", <<"a">>), Paragraph(<<"b">>) >>,
    << Heading("h2", "#s", <<"b">>), Paragraph(<<"a">>), Paragraph(<<"b">>) >>,
    << Heading("h1", "#a", <<"b">>) >> }

NoSave == [saved |-> FALSE, docs |-> <<>>, index |-> BuildIndex(<<>>)]
NoQuery == [term |-> "", refs |-> {}, threw |-> FALSE]
NoRtFile == [exists |-> FALSE, content |-> NoJSON, mtime |-> 0, size |-> 0]

RtInit ==
  /\ rtDocs = <<>>
  /\ rtSaved = NoSave
  /\ rtFile = NoRtFile
  /\ rtCache = NoEntry
  /\ rtQuery = NoQuery
  /\ rtSteps = 0

RtIdle == RtInit

\* addDoc(content, permalink) (Index.js 216-238)
RtAddDoc(children, permalink) ==
  /\ rtSteps < MaxSteps
  /\ rtSteps' = rtSteps + 1
  /\ rtDocs' = addDoc(rtDocs, children, permalink)
  /\ rtQuery' = NoQuery
  /\ UNCHANGED <<rtSaved, rtFile, rtCache>>
  /\ UNCHANGED exceptRt

\* save() (Index.js 247-289)
RtSave ==
  /\ rtSteps < MaxSteps
  /\ rtSteps' = rtSteps + 1
  /\ LET index == BuildIndex(SaveEntries(rtDocs))
     IN /\ rtSaved' = [saved |-> TRUE, docs |-> rtDocs, index |-> index]
        /\ rtFile' = [exists |-> TRUE, content |-> OutputJSON(index, rtDocs),
                      mtime |-> rtFile.mtime + 1,
                      size |-> SizeOf(SaveEntries(rtDocs))]
  /\ rtQuery' = NoQuery
  /\ UNCHANGED <<rtDocs, rtCache>>
  /\ UNCHANGED exceptRt

\* search(indexPath, term) from the call to the result: load with getStats,
\* loadIndex when needed, then the index search (Search.js 256-265, 184-199,
\* 276-298); the revalidation sweep finds the file in place
RtSearch(term) ==
  /\ LET stat == getStats(rtFile)
         json == IF rtFile.exists THEN rtFile.content ELSE NoJSON
         cache == IF NeedsLoad(rtCache, stat) /\ Loads(json)
                  THEN Entry([docs |-> json.docs, index |-> IndexLoad(json.index)],
                             stat.mtime, stat.size)
                  ELSE rtCache
     IN /\ rtCache' = IF Evicts(stat) THEN NoEntry ELSE cache
        /\ rtQuery' = [term |-> term,
                       refs |-> IF cache.present
                                THEN IndexSearch(cache.content.index, term) ELSE {},
                       threw |-> FALSE]
  /\ UNCHANGED <<rtDocs, rtSaved, rtFile, rtSteps>>
  /\ UNCHANGED exceptRt

RtNext ==
  \/ \E children \in RtContents, permalink \in Permalinks : RtAddDoc(children, permalink)
  \/ RtSave
  \/ \E term \in Terms : RtSearch(term)

(***************************************************************************)
(* Direct-load specification: the Search class that holds one index file   *)
(* (unnamed/part_007 15-184).  save() writes the file, load() reads it     *)
(* into readIndex, search(term) queries readIndex.  load() is              *)
(* asynchronous: calls of load overlap each other, save and search.        *)
(***************************************************************************)
MaxDlSteps == 5
MaxDlLoads == 2

Null == "null"

\* what the file holds: nothing, text that Index.load rejects, or an index
Indexes == {"index1", "index2"}
FileStates == {"missing", "invalid"} \cup Indexes

\* mutant: a load that fails drops the index loaded before
LoadedIndexOrNull(current, read) == IF read \in Indexes THEN read ELSE Null

\* readIndex after the try block of load (part_007 153-157)
LoadedIndex(current, read) == IF read \in Indexes THEN read ELSE current

NoLoad == [pc |-> "none", read |-> "none", before |-> Null, after |-> Null, threw |-> FALSE]
NoSearch == [called |-> FALSE, threw |-> FALSE, ready |-> FALSE, result |-> Null]

\* the state after new Search(indexPath) (part_007 16-43)
DlInit ==
  /\ dlFile \in {"missing", "invalid"}
  /\ readIndex = Null
  /\ dlLoads = [p \in 1..MaxDlLoads |-> NoLoad]
  /\ dlSucceeded = FALSE
  /\ dlLoaded = NoLoad
  /\ dlSearched = NoSearch
  /\ dlSteps = 0

DlIdle ==
  /\ dlFile = "missing"
  /\ readIndex = Null
  /\ dlLoads = <<>>
  /\ dlSucceeded = FALSE
  /\ dlLoaded = NoLoad
  /\ dlSearched = NoSearch
  /\ dlSteps = 0

\* save() (part_007 141-143), or any other writer of the file
DlWrite(content) ==
  /\ dlSteps < MaxDlSteps
  /\ content # dlFile
  /\ dlFile' = content
  /\ dlSteps' = dlSteps + 1
  /\ dlLoaded' = NoLoad
  /\ dlSearched' = NoSearch
  /\ UNCHANGED <<readIndex, dlLoads, dlSucceeded>>
  /\ UNCHANGED exceptDl

\* load() up to the await of readJSON (part_007 152-154)
DlLoadCall(p) ==
  /\ dlSteps < MaxDlSteps
  /\ dlLoads[p].pc = "none"
  /\ \A q \in 1..(p - 1) : dlLoads[q].pc # "none"
  /\ dlLoads' = [dlLoads EXCEPT ![p] = [NoLoad EXCEPT !.pc = "read"]]
  /\ dlSteps' = dlSteps + 1
  /\ dlLoaded' = NoLoad
  /\ dlSearched' = NoSearch
  /\ UNCHANGED <<dlFile, readIndex, dlSucceeded>>
  /\ UNCHANGED exceptDl

\* readJSON reads the disk (part_007 154)
DlLoadRead(p) ==
  /\ dlLoads[p].pc = "read"
  /\ dlLoads' = [dlLoads EXCEPT ![p].pc = "resume", ![p].read = dlFile]
  /\ dlLoaded' = NoLoad
  /\ dlSearched' = NoSearch
  /\ UNCHANGED <<dlFile, readIndex, dlSucceeded, dlSteps>>
  /\ UNCHANGED exceptDl

\* the continuation of load: Index.load and the assignment, or the empty
\* catch (part_007 155-157); the promise of load() resolves
DlLoadResume(p) ==
  /\ dlLoads[p].pc = "resume"
  /\ readIndex' = LoadedIndex(readIndex, dlLoads[p].read)
  /\ dlSucceeded' = (dlSucceeded \/ dlLoads[p].read \in Indexes)
  /\ dlLoaded' = [dlLoads[p] EXCEPT !.pc = "done", !.before = readIndex,
                                    !.after = LoadedIndex(readIndex, dlLoads[p].read)]
  /\ dlLoads' = [dlLoads EXCEPT ![p] = NoLoad]
  /\ dlSearched' = NoSearch
  /\ UNCHANGED <<dlFile, dlSteps>>
  /\ UNCHANGED exceptDl

\* search(term) (part_007 169-184)
DlSearch ==
  /\ dlSteps < MaxDlSteps
  /\ dlSearched' = [called |-> TRUE, threw |-> readIndex = Null,
                    ready |-> dlSucceeded,
                    result |-> IF readIndex = Null THEN Null ELSE readIndex]
  /\ dlSteps' = dlSteps + 1
  /\ dlLoaded' = NoLoad
  /\ UNCHANGED <<dlFile, readIndex, dlLoads, dlSucceeded>>
  /\ UNCHANGED exceptDl

DlNext ==
  \/ \E content \in FileStates : DlWrite(content)
  \/ \E p \in 1..MaxDlLoads : DlLoadCall(p)
  \/ \E p \in 1..MaxDlLoads : DlLoadRead(p)
  \/ \E p \in 1..MaxDlLoads : DlLoadResume(p)
  \/ DlSearch

(***************************************************************************)
(* Datastore specification: saveDoc and syncVersions of the zone-aware     *)
(* Datastore (Datastore.js 520-621) over the Db (Db.js).  Every call names *)
(* the one zone "api" and passes arguments that the ow validations accept, *)
(* or an empty permalink.  saveDoc is asynchronous: after the duplicate    *)
(* check it waits for fs.outputJSON, and other calls run meanwhile.        *)
(***************************************************************************)
MaxStCalls == 3
MaxStInFlight == 2

VersionNos == {"1.0.0", "2.0.0"}
FilePaths == {"foo.md", "bar.md"}
DocPermalinks == {"", "/hello", "hello", "/world"}
Revisions == {"r1", "r2"}
\* the versions arguments of syncVersions, as lists of version numbers
VersionLists == {<<>>, <<"1.0.0">>, <<"2.0.0">>, <<"1.0.0", "2.0.0">>}

\* utils.permalink.normalize: the permalink without the slashes around it
Normalize(permalink) ==
  IF permalink = "/hello" THEN "hello"
  ELSE IF permalink = "/world" THEN "world"
  ELSE permalink

\* utils.permalink.isSame, as Db.findDuplicateDoc uses it (Db.js 559)
isSame(a, b) == Normalize(a) = Normalize(b)

\* paths.makeJsonPath (Datastore.js 535): the path of the .json file
makeJsonPath(filePath) == IF filePath = "foo.md" THEN "foo.json" ELSE "bar.json"

JsonPaths == {makeJsonPath(f) : f \in FilePaths}

\* Db._normalizeVersion (Db.js 54-62), the flags left out
_normalizeVersion(no) == [no |-> no, docs |-> <<>>]

\* Db.getVersion (Db.js 473-485): the position of the version, 0 for null
getVersion(data, no) ==
  IF \E i \in DOMAIN data : data[i].no = no
  THEN CHOOSE i \in DOMAIN data : data[i].no = no
  ELSE 0

\* Db.saveVersion with the payload { no } (Db.js 304-325)
saveVersion(data, no) ==
  IF getVersion(data, no) = 0 THEN Append(data, _normalizeVersion(no)) ELSE data

\* Db.removeVersion (Db.js 430-441)
removeVersion(data, no) == SelectSeq(data, LAMBDA v : v.no # no)

NoDoc == [jsonPath |-> "", permalink |-> "", title |-> ""]

\* docs.find: the first doc of a list at one of the positions, NoDoc for none
FindDoc(docs, positions) ==
  IF positions = {} THEN NoDoc
  ELSE docs[CHOOSE i \in positions : \A j \in positions : i <= j]

\* Db.findDuplicateDoc (Db.js 552-561), which saveDoc calls as duplicateDoc
findDuplicateDoc(data, no, permalink, jsonPath) ==
  IF getVersion(data, no) = 0 THEN NoDoc
  ELSE LET docs == data[getVersion(data, no)].docs
       IN  FindDoc(docs, {i \in DOMAIN docs :
                            /\ isSame(docs[i].permalink, permalink)
                            /\ docs[i].jsonPath # jsonPath})

\* Db.getDoc: the doc of a version at a json path
getDoc(data, no, jsonPath) ==
  IF getVersion(data, no) = 0 THEN NoDoc
  ELSE LET docs == data[getVersion(data, no)].docs
       IN  FindDoc(docs, {i \in DOMAIN docs : docs[i].jsonPath = jsonPath})

\* Db.addDoc (Db.js 337-368): the version is created if missing, the doc at
\* the json path is updated in place or the payload is pushed
DbAddDoc(data, no, payload) ==
  LET saved == saveVersion(data, no)
      v == getVersion(saved, no)
      docs == saved[v].docs
  IN  IF \E i \in DOMAIN docs : docs[i].jsonPath = payload.jsonPath
      THEN [saved EXCEPT ![v].docs =
              [i \in DOMAIN docs |->
                 IF docs[i].jsonPath = payload.jsonPath THEN payload ELSE docs[i]]]
      ELSE [saved EXCEPT ![v].docs = Append(docs, payload)]

RECURSIVE SaveVersions(_, _)
\* versions.forEach(saveVersion) (Datastore.js 597)
SaveVersions(data, versions) ==
  IF versions = <<>> THEN data
  ELSE SaveVersions(saveVersion(data, Head(versions)), Tail(versions))

\* the version numbers of a list
Nos(list) == {list[i] : i \in DOMAIN list}
VersionsOf(data) == {data[i].no : i \in DOMAIN data}

\* _.differenceBy(existingVersions, versions, no) (Datastore.js 592)
Removed(data, versions) == VersionsOf(data) \ Nos(versions)

\* the db after the synchronous part of syncVersions (Datastore.js 597-610)
SyncedData(data, versions) ==
  SelectSeq(SaveVersions(data, versions), LAMBDA v : v.no \notin Removed(data, versions))

\* the promises syncVersions awaits (Datastore.js 616-618): Promise.all is
\* given a list whose one element is the list of the fs.remove promises,
\* which is no promise, so none of the removals is waited for
Awaited(removed) == {}

\* the saveDoc calls that can be waiting for their file
SaveTasks == [no : VersionNos, jsonPath : JsonPaths,
              permalink : DocPermalinks \ {""}, rev : Revisions]

NoContent == "missing"
EmptyDisk == [f \in VersionNos \X JsonPaths |-> NoContent]

\* fs.remove of a version directory
RemoveDir(disk, no) == [f \in DOMAIN disk |-> IF f[1] = no THEN NoContent ELSE disk[f]]
DirExists(disk, no) == \E f \in DOMAIN disk : f[1] = no /\ disk[f] # NoContent

NoLast == [op |-> "none", no |-> "", jsonPath |-> "", permalink |-> "",
           title |-> "", raised |-> "none", own |-> FALSE, other |-> FALSE,
           changed |-> FALSE, given |-> {}, removed |-> {}]

DsInit ==
  /\ dsLoaded = FALSE
  /\ dsData = <<>>
  /\ dsDisk = EmptyDisk
  /\ dsSaves = {}
  /\ dsRemoving = {}
  /\ dsLast = NoLast
  /\ dsCalls = 0

DsIdle == DsInit

\* Datastore.load (Datastore.js 970-976) on a store without meta.json:
\* Db.load falls back to the initial payload (Db.js 184-197)
DsLoad ==
  /\ ~dsLoaded
  /\ dsLoaded' = TRUE
  /\ dsData' = <<>>
  /\ dsLast' = [NoLast EXCEPT !.op = "load"]
  /\ UNCHANGED <<dsDisk, dsSaves, dsRemoving, dsCalls>>
  /\ UNCHANGED exceptDs

\* saveDoc up to its await (Datastore.js 520-562): validation, the
\* duplicate check, and the start of fs.outputJSON
SaveDocCall(no, filePath, permalink, rev) ==
  LET jsonPath == makeJsonPath(filePath)
      existingDoc == findDuplicateDoc(dsData, no, permalink, jsonPath)
      raised == IF permalink = "" THEN "invalid"
                ELSE IF ~dsLoaded THEN "not-loaded"
                ELSE IF existingDoc # NoDoc THEN "duplicate-permalink"
                ELSE "none"
      task == [no |-> no, jsonPath |-> jsonPath, permalink |-> permalink, rev |-> rev]
  IN  /\ dsCalls < MaxStCalls
      /\ Cardinality(dsSaves) < MaxStInFlight
      /\ dsCalls' = dsCalls + 1
      /\ dsSaves' = IF raised = "none" THEN dsSaves \cup {task} ELSE dsSaves
      /\ UNCHANGED <<dsLoaded, dsData, dsDisk, dsRemoving>>
      /\ dsLast' = [NoLast EXCEPT
           !.op = "saveDoc", !.no = no, !.jsonPath = jsonPath,
           !.permalink = permalink, !.title = rev, !.raised = raised,
           !.own = (permalink # "" /\ getDoc(dsData, no, jsonPath) # NoDoc
                    /\ isSame(getDoc(dsData, no, jsonPath).permalink, permalink)),
           !.other = (permalink # "" /\ getVersion(dsData, no) # 0
                      /\ \E i \in DOMAIN dsData[getVersion(dsData, no)].docs :
                           LET doc == dsData[getVersion(dsData, no)].docs[i]
                           IN  isSame(doc.permalink, permalink) /\ doc.jsonPath # jsonPath),
           !.changed = (dsData' # dsData \/ dsDisk' # dsDisk)]
      /\ UNCHANGED exceptDs

\* the continuation of saveDoc (Datastore.js 562-567): the file is written
\* and the meta data goes to the db
SaveDocResume(task) ==
  /\ task \in dsSaves
  /\ dsSaves' = dsSaves \ {task}
  /\ dsDisk' = [dsDisk EXCEPT ![<<task.no, task.jsonPath>>] = task.rev]
  /\ dsData' = DbAddDoc(dsData, task.no,
                        [jsonPath |-> task.jsonPath, permalink |-> task.permalink,
                         title |-> task.rev])
  /\ dsLast' = [NoLast EXCEPT !.op = "saved", !.no = task.no,
                              !.jsonPath = task.jsonPath,
                              !.permalink = task.permalink, !.title = task.rev,
                              !.changed = TRUE]
  /\ UNCHANGED <<dsLoaded, dsRemoving, dsCalls>>
  /\ UNCHANGED exceptDs

\* syncVersions (Datastore.js 580-621) up to the resolution of its promise:
\* the db is updated, fs.remove is started for every removed version, and
\* the promise resolves once the promises of Awaited have
SyncVersions(versions) ==
  LET removed == Removed(dsData, versions)
      started == {no \in removed : DirExists(dsDisk, no)}
  IN  /\ dsCalls < MaxStCalls
      /\ dsLoaded
      /\ dsCalls' = dsCalls + 1
      /\ dsData' = SyncedData(dsData, versions)
      /\ dsDisk' = [f \in DOMAIN dsDisk |->
                      IF f[1] \in Awaited(started) THEN NoContent ELSE dsDisk[f]]
      /\ dsRemoving' = dsRemoving \cup (started \ Awaited(started))
      /\ dsLast' = [NoLast EXCEPT !.op = "syncVersions", !.given = Nos(versions),
                                  !.removed = removed, !.changed = TRUE]
      /\ UNCHANGED <<dsLoaded, dsSaves>>
      /\ UNCHANGED exceptDs

\* fs.remove finishes deleting a version directory
RemoveDone(no) ==
  /\ no \in dsRemoving
  /\ dsRemoving' = dsRemoving \ {no}
  /\ dsDisk' = RemoveDir(dsDisk, no)
  /\ dsLast' = [NoLast EXCEPT !.op = "removed", !.no = no, !.changed = TRUE]
  /\ UNCHANGED <<dsLoaded, dsData, dsSaves, dsCalls>>
  /\ UNCHANGED exceptDs

DsNext ==
  \/ DsLoad
  \/ \E no \in VersionNos, filePath \in FilePaths,
        permalink \in DocPermalinks, rev \in Revisions :
       SaveDocCall(no, filePath, permalink, rev)
  \/ \E task \in SaveTasks : SaveDocResume(task)
  \/ \E versions \in VersionLists : SyncVersions(versions)
  \/ \E no \in VersionNos : RemoveDone(no)

(***************************************************************************)
(* Version specification: one Version instance (Version/index.ts 35-237)   *)
(* with a dest path registered in its context.  update, saveDoc, removeDoc *)
(* and clean change the fields in their synchronous part; the file         *)
(* operations they start finish later, in any order.                       *)
(***************************************************************************)
MaxVerCalls == 4

\* a file path is a base name and an extension
SrcPaths == {<<"foo", ".md">>, <<"foo", ".txt">>, <<"bar", ".md">>}
VerPermalinks == {"/hello", "/world"}
\* doc.title: the empty title fails the ow validation
VerTitles == {"", "t1"}
\* the name and location of the node update receives, "" for a missing one
VerNames == {"", "v2"}
VerLocations == {"", "docs/v2"}

\* Version._makeJsonPath (index.ts 107-109): the extension becomes .json
_makeJsonPath(filePath) == <<filePath[1], ".json">>

VerJsonPaths == {_makeJsonPath(f) : f \in SrcPaths}

NoVerDoc == [title |-> "", srcPath |-> <<>>, permalink |-> ""]

\* the keys of Version.docs
DocKeys(docs) == {p \in DOMAIN docs : docs[p] # NoVerDoc}

\* Version._ensureIsntFrozen (index.ts 118-122): whether it throws
EnsureNeverThrows(frozen) == FALSE

_ensureIsntFrozen(frozen) == frozen

\* Version._scanForOverrides (index.ts 89-102): whether it throws
_scanForOverrides(docs, srcPath, jsonPath) ==
  \E docPath \in DocKeys(docs) : docPath = jsonPath /\ docs[docPath].srcPath # srcPath

\* Version._scanForDuplicates (index.ts 72-82): whether it throws
_scanForDuplicates(docs, permalink, jsonPath) ==
  \E docPath \in DocKeys(docs) : docPath # jsonPath /\ docs[docPath].permalink = permalink

NoVerLast == [op |-> "none", raised |-> "none", changed |-> FALSE]

\* the fields of the version the frozen check protects
VerFields == <<verName, verDocsPath, verDocs>>

VerInit ==
  /\ verName = "1.0.0"
  /\ verDocsPath = "docs/v1"
  /\ verDocs = [p \in VerJsonPaths |-> NoVerDoc]
  /\ isFrozen = FALSE
  /\ verDisk = {}
  /\ verIo = {}
  /\ verCleaned = FALSE
  /\ verLast = NoVerLast
  /\ verCalls = 0

VerIdle == VerInit

\* update(version) (index.ts 128-140)
VerUpdate(name, location) ==
  LET threw == _ensureIsntFrozen(isFrozen)
  IN  /\ verCalls < MaxVerCalls
      /\ verCalls' = verCalls + 1
      /\ verName' = IF ~threw /\ name # "" THEN name ELSE verName
      /\ verDocsPath' = IF ~threw /\ location # "" THEN location ELSE verDocsPath
      /\ UNCHANGED <<verDocs, isFrozen, verDisk, verIo, verCleaned>>
      /\ verLast' = [op |-> "update",
                     raised |-> IF threw THEN "FrozenVersion" ELSE "none",
                     changed |-> VerFields' # VerFields]
      /\ UNCHANGED exceptVer

\* saveDoc(filePath, doc) up to its await (index.ts 151-187)
VerSaveDoc(filePath, permalink, title) ==
  LET jsonPath == _makeJsonPath(filePath)
      raised == IF title = "" THEN "ArgumentError"
                ELSE IF _ensureIsntFrozen(isFrozen) THEN "FrozenVersion"
                ELSE IF _scanForOverrides(verDocs, filePath, jsonPath) THEN "DuplicateSource"
                ELSE IF _scanForDuplicates(verDocs, permalink, jsonPath) THEN "DuplicatePermalink"
                ELSE "none"
  IN  /\ verCalls < MaxVerCalls
      /\ verCalls' = verCalls + 1
      /\ verDocs' = IF raised = "none"
                    THEN [verDocs EXCEPT ![jsonPath] =
                            [title |-> title, srcPath |-> filePath, permalink |-> permalink]]
                    ELSE verDocs
      /\ verIo' = IF raised = "none"
                  THEN verIo \cup {[kind |-> "outputJson", path |-> jsonPath]}
                  ELSE verIo
      /\ UNCHANGED <<verName, verDocsPath, isFrozen, verDisk, verCleaned>>
      /\ verLast' = [op |-> IF title = "" THEN "saveDocInvalid" ELSE "saveDoc",
                     raised |-> raised, changed |-> VerFields' # VerFields]
      /\ UNCHANGED exceptVer

\* removeDoc(filePath) up to its await (index.ts 194-201)
VerRemoveDoc(filePath) ==
  LET jsonPath == _makeJsonPath(filePath)
      threw == _ensureIsntFrozen(isFrozen)
  IN  /\ verCalls < MaxVerCalls
      /\ verCalls' = verCalls + 1
      /\ verDocs' = IF threw THEN verDocs ELSE [verDocs EXCEPT ![jsonPath] = NoVerDoc]
      /\ verIo' = IF threw THEN verIo
                  ELSE verIo \cup {[kind |-> "remove", path |-> jsonPath]}
      /\ UNCHANGED <<verName, verDocsPath, isFrozen, verDisk, verCleaned>>
      /\ verLast' = [op |-> "removeDoc",
                     raised |-> IF threw THEN "FrozenVersion" ELSE "none",
                     changed |-> VerFields' # VerFields]
      /\ UNCHANGED exceptVer

\* clean() up to its await (index.ts 209-222)
VerClean ==
  /\ verCalls < MaxVerCalls
  /\ verCalls' = verCalls + 1
  /\ isFrozen' = TRUE
  /\ verDocs' = [p \in VerJsonPaths |-> NoVerDoc]
  /\ verIo' = verIo \cup {[kind |-> "removeAll", path |-> <<>>]}
  /\ verCleaned' = TRUE
  /\ UNCHANGED <<verName, verDocsPath, verDisk>>
  /\ verLast' = [op |-> "clean", raised |-> "none", changed |-> VerFields' # VerFields]
  /\ UNCHANGED exceptVer

\* the file operations a call can have started
VerIoOps == [kind : {"outputJson", "remove"}, path : VerJsonPaths]
              \cup {[kind |-> "removeAll", path |-> <<>>]}

\* one file operation finishes; the continuation of its call does nothing
\* more than resolve the promise (index.ts 187, 201, 222)
VerIoDone(io) ==
  /\ io \in verIo
  /\ verIo' = verIo \ {io}
  /\ verDisk' = IF io.kind = "outputJson" THEN verDisk \cup {io.path}
                ELSE IF io.kind = "remove" THEN verDisk \ {io.path}
                ELSE {}
  /\ verLast' = [op |-> "io", raised |-> "none", changed |-> FALSE]
  /\ UNCHANGED <<verName, verDocsPath, verDocs, isFrozen, verCleaned, verCalls>>
  /\ UNCHANGED exceptVer

VerNext ==
  \/ \E name \in VerNames, location \in VerLocations : VerUpdate(name, location)
  \/ \E filePath \in SrcPaths, permalink \in VerPermalinks, title \in VerTitles :
       VerSaveDoc(filePath, permalink, title)
  \/ \E filePath \in SrcPaths : VerRemoveDoc(filePath)
  \/ VerClean
  \/ \E io \in VerIoOps : VerIoDone(io)

(***************************************************************************)
(* Sync specification: syncConfig of the Datastore that tracks Version     *)
(* instances (test/search.spec.js 493-607).  A config is the list of its   *)
(* versions in the order zones.forEach and versions.forEach visit them,    *)
(* each with the slug of its zone.  The uid of a version is zone/no        *)
(* (Version/index.ts 53-55); none of the tracked versions is frozen.       *)
(***************************************************************************)
MaxSyncCalls == 3
MaxConfigLen == 2

ConfigDomains == {"a.dimerapp.com", "b.dimerapp.com"}
\* the versions a config can hold; the name "" stands for a missing name
ConfigVersions ==
  [slug : {"guides"}, no : {"1.0.0", "2.0.0"}, name : {"", "latest"}]
    \cup [slug : {"api"}, no : {"1.0.0"}, name : {"", "latest"}]
Configs == [domain : ConfigDomains, versions : SeqUpTo(ConfigVersions, MaxConfigLen)]

\* Version.uid (Version/index.ts 53-55)
uid(version) == <<version.slug, version.no>>

\* new Version(no, location, ctx, slug, name) (Version/index.ts 39-48)
NewVersion(version) ==
  [slug |-> version.slug, no |-> version.no,
   name |-> IF version.name = "" THEN version.no ELSE version.name]

\* Version.update on an instance that is not frozen (Version/index.ts 128-140)
VersionUpdate(instance, version) ==
  IF version.name # "" THEN [instance EXCEPT !.name = version.name] ELSE instance

\* _trackedVersions.find by uid (search.spec.js 566): the first tracked
\* instance of the uid, 0 for none
FindTracked(heap, tracked, id) ==
  IF \E i \in DOMAIN tracked : uid(heap[tracked[i]]) = id
  THEN tracked[CHOOSE i \in DOMAIN tracked :
                 /\ uid(heap[tracked[i]]) = id
                 /\ \A j \in 1..(i - 1) : uid(heap[tracked[j]]) # id]
  ELSE 0

\* one round of the loop over the versions of the config (search.spec.js 564-575)
DiffStep(acc, tracked, version) ==
  LET existingVersion == FindTracked(acc.heap, tracked, uid(version))
  IN  IF existingVersion # 0
      THEN [acc EXCEPT
              !.heap[existingVersion] = VersionUpdate(acc.heap[existingVersion], version),
              !.retainedUid = Append(acc.retainedUid, uid(version)),
              !.updated = Append(acc.updated, existingVersion)]
      ELSE [acc EXCEPT
              !.heap = Append(acc.heap, NewVersion(version)),
              !.retainedUid = Append(acc.retainedUid, uid(version)),
              !.added = Append(acc.added, Len(acc.heap) + 1)]

RECURSIVE DiffLoop(_, _, _)
DiffLoop(acc, tracked, versions) ==
  IF versions = <<>> THEN acc
  ELSE DiffLoop(DiffStep(acc, tracked, Head(versions)), tracked, Tail(versions))

\* Datastore._getSyncDiff (search.spec.js 553-584): the diff, as lists of
\* instances, and the instances after the updates
_getSyncDiff(heap, tracked, versions) ==
  LET acc == DiffLoop([heap |-> heap, added |-> <<>>, updated |-> <<>>,
                       retainedUid |-> <<>>], tracked, versions)
      retained == {acc.retainedUid[i] : i \in DOMAIN acc.retainedUid}
  IN  [heap |-> acc.heap, added |-> acc.added, updated |-> acc.updated,
       removed |-> SelectSeq(tracked, LAMBDA v : uid(acc.heap[v]) \notin retained)]

\* the list syncConfig tracks from then on, with only the added versions
TrackedAddedOnly(diff) == diff.added

\* diff.added.concat(diff.updated) (search.spec.js 601)
TrackedAfter(diff) == diff.added \o diff.updated

NoDiff == [added |-> <<>>, updated |-> <<>>, removed |-> <<>>]
NoSync == [called |-> FALSE, versions |-> <<>>, before |-> <<>>]

ScInit ==
  /\ scHeap = <<>>
  /\ scTracked = <<>>
  /\ scMetaData = ""
  /\ scDiff = NoDiff
  /\ scLast = NoSync
  /\ scCalls = 0

ScIdle == ScInit

\* syncConfig(config) (search.spec.js 592-604)
SyncConfig ==
  \E config \in Configs :
    LET diff == _getSyncDiff(scHeap, scTracked, config.versions)
    IN  /\ scCalls < MaxSyncCalls
        /\ scCalls' = scCalls + 1
        /\ scMetaData' = config.domain
        /\ scHeap' = diff.heap
        /\ scTracked' = TrackedAfter(diff)
        /\ scDiff' = [added |-> diff.added, updated |-> diff.updated,
                      removed |-> diff.removed]
        /\ scLast' = [called |-> TRUE, versions |-> config.versions,
                      before |-> scTracked]
        /\ UNCHANGED exceptSc

(***************************************************************************)
(* Db specification: one Db instance (Db.js 23-562) and its meta file.     *)
(* load() is asynchronous; the public methods are synchronous and are      *)
(* called with arguments their ow validations accept, at any time.         *)
(***************************************************************************)
MaxDbCalls == 4
MaxDbLoads == 2

DbSlugs == {"api", "guides"}
DbNo == "1.0.0"
DbMetas == {"a.dimerapp.com", "b.dimerapp.com"}
DbDoc(jsonPath) == [jsonPath |-> jsonPath, permalink |-> "/hello", title |-> "t1"]

\* Db._initialPayload (Db.js 39-41)
_initialPayload == [domain |-> "", zones |-> <<>>]

\* what the meta file can hold: nothing, text that is no JSON, or a payload
DbStored == [domain |-> "a.dimerapp.com",
             zones |-> <<[slug |-> "api",
                          versions |-> <<[no |-> DbNo, docs |-> <<DbDoc("foo.json")>>]>>]>>]
DbFileStates == {"missing", "unparsable", "present"}

\* the data load() ends with (Db.js 185-194): the parsed file with its
\* zones normalized, or the initial payload when readJSON throws
LoadedData(read) == IF read = "present" THEN DbStored ELSE _initialPayload

\* Db._ensureIsLoaded (Db.js 90-94): whether it throws
EnsureLoadedNeverThrows(loaded) == FALSE

_ensureIsLoaded(loaded) == ~loaded

\* Db.getZone (Db.js 250-255): the position of the zone, 0 for null
getZone(zones, slug) ==
  IF \E i \in DOMAIN zones : zones[i].slug = slug
  THEN CHOOSE i \in DOMAIN zones : zones[i].slug = slug
  ELSE 0

\* Db.saveZone with the payload { slug } (Db.js 267-288)
saveZone(zones, slug) ==
  IF getZone(zones, slug) = 0 THEN Append(zones, [slug |-> slug, versions |-> <<>>])
  ELSE zones

\* Db.removeZone (Db.js 407-412)
removeZone(zones, slug) == SelectSeq(zones, LAMBDA z : z.slug # slug)

\* Db.removeDoc within the versions of a zone (Db.js 449-462)
removeDoc(versions, no, jsonPath) ==
  IF getVersion(versions, no) = 0 THEN versions
  ELSE [versions EXCEPT ![getVersion(versions, no)].docs =
          SelectSeq(@, LAMBDA doc : doc.jsonPath # jsonPath)]

\* the zones with something done to the versions of one zone
InZone(zones, slug, versions) == [zones EXCEPT ![getZone(zones, slug)].versions = versions]

DbReads == {"getZone", "getZones", "getVersions", "getVersion", "getDoc",
            "getDocByPermalink", "findDuplicateDoc"}
DbWrites == {"saveZone", "saveVersion", "addDoc", "removeZone", "removeVersion",
             "removeDoc", "syncMetaData"}
DbMethods == DbReads \cup DbWrites

\* Db.data after the body of a public method has run (Db.js 233-561)
Apply(method, data, slug, jsonPath, meta) ==
  LET zones == data.zones
      z == getZone(zones, slug)
  IN  IF method = "syncMetaData" THEN [domain |-> meta, zones |-> zones]
      ELSE IF method = "saveZone" THEN [data EXCEPT !.zones = saveZone(zones, slug)]
      ELSE IF method = "saveVersion"
        THEN LET saved == saveZone(zones, slug)
             IN  [data EXCEPT !.zones =
                    InZone(saved, slug, saveVersion(saved[getZone(saved, slug)].versions, DbNo))]
      ELSE IF method = "addDoc"
        THEN LET saved == saveZone(zones, slug)
             IN  [data EXCEPT !.zones =
                    InZone(saved, slug,
                           DbAddDoc(saved[getZone(saved, slug)].versions, DbNo, DbDoc(jsonPath)))]
      ELSE IF method = "removeZone" THEN [data EXCEPT !.zones = removeZone(zones, slug)]
      ELSE IF method = "removeVersion" /\ z # 0
        THEN [data EXCEPT !.zones = InZone(zones, slug, removeVersion(zones[z].versions, DbNo))]
      ELSE IF method = "removeDoc" /\ z # 0
        THEN [data EXCEPT !.zones =
                InZone(zones, slug, removeDoc(zones[z].versions, DbNo, jsonPath))]
      ELSE data

NoDbLoad == [pc |-> "none", read |-> "none"]
NoDbLast == [op |-> "none", threw |-> "none", changed |-> FALSE, ready |-> FALSE]

DbInit ==
  /\ dbFile = "missing"
  /\ dbLoaded = FALSE
  /\ dbData = _initialPayload
  /\ dbLoads = [p \in 1..MaxDbLoads |-> NoDbLoad]
  /\ dbCompleted = FALSE
  /\ dbLast = NoDbLast
  /\ dbCalls = 0

DbIdle == DbInit

\* the environment writes or removes the meta file
DbWriteFile(content) ==
  /\ dbCalls < MaxDbCalls
  /\ content # dbFile
  /\ dbFile' = content
  /\ dbCalls' = dbCalls + 1
  /\ dbLast' = NoDbLast
  /\ UNCHANGED <<dbLoaded, dbData, dbLoads, dbCompleted>>
  /\ UNCHANGED exceptDb

\* load() up to its await (Db.js 184-186): fs.readJSON is started
DbLoadCall(p) ==
  /\ dbCalls < MaxDbCalls
  /\ dbLoads[p] = NoDbLoad
  /\ \A q \in 1..(p - 1) : dbLoads[q] # NoDbLoad
  /\ dbLoads' = [dbLoads EXCEPT ![p] = [pc |-> "read", read |-> "none"]]
  /\ dbCalls' = dbCalls + 1
  /\ dbLast' = NoDbLast
  /\ UNCHANGED <<dbFile, dbLoaded, dbData, dbCompleted>>
  /\ UNCHANGED exceptDb

\* fs.readJSON reads the file
DbLoadRead(p) ==
  /\ dbLoads[p].pc = "read"
  /\ dbLoads' = [dbLoads EXCEPT ![p] = [pc |-> "resume", read |-> dbFile]]
  /\ dbLast' = NoDbLast
  /\ UNCHANGED <<dbFile, dbLoaded, dbData, dbCompleted, dbCalls>>
  /\ UNCHANGED exceptDb

\* the continuation of load (Db.js 186-197): the data is assigned, or the
\* initial payload in the catch, and loaded is set; the promise resolves
DbLoadResume(p) ==
  /\ dbLoads[p].pc = "resume"
  /\ dbData' = LoadedData(dbLoads[p].read)
  /\ dbLoaded' = TRUE
  /\ dbCompleted' = TRUE
  /\ dbLoads' = [dbLoads EXCEPT ![p] = NoDbLoad]
  /\ dbLast' = [NoDbLast EXCEPT !.op = "load"]
  /\ UNCHANGED <<dbFile, dbCalls>>
  /\ UNCHANGED exceptDb

\* a public read or mutation method: _ensureIsLoaded, then its body
DbInvoke(method, slug, jsonPath, meta) ==
  LET threw == _ensureIsLoaded(dbLoaded)
  IN  /\ dbCalls < MaxDbCalls
      /\ dbCalls' = dbCalls + 1
      /\ dbData' = IF threw THEN dbData ELSE Apply(method, dbData, slug, jsonPath, meta)
      /\ dbLast' = [op |-> method, threw |-> IF threw THEN "not-ready" ELSE "none",
                    changed |-> dbData' # dbData, ready |-> dbCompleted]
      /\ UNCHANGED <<dbFile, dbLoaded, dbLoads, dbCompleted>>
      /\ UNCHANGED exceptDb

DbNext ==
  \/ \E content \in DbFileStates : DbWriteFile(content)
  \/ \E p \in 1..MaxDbLoads : DbLoadCall(p)
  \/ \E p \in 1..MaxDbLoads : DbLoadRead(p)
  \/ \E p \in 1..MaxDbLoads : DbLoadResume(p)
  \/ \E method \in DbMethods, slug \in DbSlugs, jsonPath \in JsonPaths, meta \in DbMetas :
       DbInvoke(method, slug, jsonPath, meta)

(***************************************************************************)
(* Specifications                                                          *)
(***************************************************************************)
\* no specification but one is in use
IdleExcept(group) ==
  /\ group = "hl" \/ HlIdle
  /\ group = "q" \/ QIdle
  /\ group = "c" \/ CIdle
  /\ group = "i" \/ IdxIdle
  /\ group = "r" \/ RefIdle
  /\ group = "ad" \/ AdIdle
  /\ group = "rt" \/ RtIdle
  /\ group = "dl" \/ DlIdle
  /\ group = "ds" \/ DsIdle
  /\ group = "ver" \/ VerIdle
  /\ group = "sc" \/ ScIdle
  /\ group = "db" \/ DbIdle

InitHighlight == HlInit /\ IdleExcept("hl")
NextHighlight == HlNodeToMarks
SpecHighlight == InitHighlight /\ [][NextHighlight]_vars

InitQuery == QInit /\ IdleExcept("q")
NextQuery == QSearch
SpecQuery == InitQuery /\ [][NextQuery]_vars

Init == CInit /\ IdleExcept("c")
Next == CNext
Spec == Init /\ [][Next]_vars

InitIndex == IdxInit /\ IdleExcept("i")
NextIndex == IdxNext
SpecIndex == InitIndex /\ [][NextIndex]_vars

InitRef == RefInit /\ IdleExcept("r")
NextRef == RefRoundTrip
SpecRef == InitRef /\ [][NextRef]_vars

InitAddDoc == AdInit /\ IdleExcept("ad")
NextAddDoc == AdAddDoc
SpecAddDoc == InitAddDoc /\ [][NextAddDoc]_vars

InitRoundTrip == RtInit /\ IdleExcept("rt")
NextRoundTrip == RtNext
SpecRoundTrip == InitRoundTrip /\ [][NextRoundTrip]_vars

InitDirect == DlInit /\ IdleExcept("dl")
NextDirect == DlNext
SpecDirect == InitDirect /\ [][NextDirect]_vars

InitStore == DsInit /\ IdleExcept("ds")
NextStore == DsNext
SpecStore == InitStore /\ [][NextStore]_vars

InitVersion == VerInit /\ IdleExcept("ver")
NextVersion == VerNext
SpecVersion == InitVersion /\ [][NextVersion]_vars

InitSync == ScInit /\ IdleExcept("sc")
NextSync == SyncConfig
SpecSync == InitSync /\ [][NextSync]_vars

InitDb == DbInit /\ IdleExcept("db")
NextDb == DbNext
SpecDb == InitDb /\ [][NextDb]_vars

InitChurn == ChurnInit /\ IdleExcept("c")
NextChurn == ChurnNext
SpecChurn == InitChurn /\ [][NextChurn]_vars

(***************************************************************************)
(* Properties                                                              *)
(***************************************************************************)
\* C1: concatenating the text of all raw and mark tokens in output order
\* gives back exactly the original field text, for every list of positions
C1_MarksReproduceText ==
  hlPc = "done" => ConcatMarks(hlResult.marks) = hlText

\* the searches whose load has seen the stat of the file: those in flight past
\* the decision of load, and the one that has just resolved
Decided ==
  {calls[p] : p \in {q \in DOMAIN calls : calls[q].kind = "search"
                                          /\ calls[q].pc \in {"read", "resume"}}}
  \cup (IF resolved.kind = "search" THEN {resolved} ELSE {})

\* C2 (as claimed): when a path has a cache entry and the file's current mtime
\* or size differs from the stored fingerprint, in either direction, the file
\* is reloaded and the entry replaced by the freshly loaded one
C2_ReloadWhenFingerprintDiffers ==
  \A c \in Decided :
    (/\ c.cached.present
     /\ c.stat.mtime # 0
     /\ (c.stat.mtime # c.cached.mtime \/ c.stat.size # c.cached.size))
    => /\ c.loaded
       /\ (c.pc = "done" /\ c.read \in Valid)
            => c.index = Entry(c.read, c.stat.mtime, c.stat.size)

C4_MissingFileEmptyResult ==
  (resolved.kind = "search" /\ resolved.absent)
  => /\ resolved.result = <<>>
     /\ ~resolved.threw
     /\ ~indexesCache[resolved.path].present

\* C4 (amended): search on a path whose file does not exist and that has no
\* cache entry, with no other operation and no change of the file overlapping
\* the call, returns an empty list, does not throw and leaves the cache without
\* an entry for the path
C4_MissingFileEmptyResultAlone ==
  (resolved.kind = "search" /\ resolved.absent /\ resolved.alone)
  => /\ resolved.result = <<>>
     /\ ~resolved.threw
     /\ ~indexesCache[resolved.path].present

C4_Witness ==
  /\ resolved.kind = "search"
  /\ resolved.absent
  /\ resolved.alone
  /\ resolved.loaded
  /\ resolved.read = "enoent"
  /\ resolved.result = <<>>

\* C5: when the file exists but is structurally invalid at the time of the
\* search, search returns an empty list and does not throw, whatever was
\* cached before
C5_InvalidFileEmptyResult ==
  (/\ resolved.kind = "search"
   /\ resolved.alone
   /\ resolved.loaded
   /\ resolved.read \in Invalid)
  => /\ resolved.result = <<>>
     /\ ~resolved.threw

\* C6: when revalidate() resolves with no other operation overlapping it,
\* every cached path whose file no longer exists has been removed from the
\* cache and every other path is as it was
C6_RevalidateEvictsMissing ==
  (resolved.kind = "revalidate" /\ resolved.alone)
  => \A f \in Paths :
       /\ (resolved.before[f].present /\ ~fs[f].exists) => ~indexesCache[f].present
       /\ (resolved.before[f].present /\ fs[f].exists) => indexesCache[f] = resolved.before[f]
       /\ ~resolved.before[f].present => ~indexesCache[f].present

C6_Witness ==
  /\ resolved.kind = "revalidate"
  /\ resolved.alone
  /\ \E f, g \in Paths :
       /\ resolved.before[f].present /\ ~fs[f].exists /\ ~indexesCache[f].present
       /\ resolved.before[g].present /\ fs[g].exists /\ indexesCache[g].present

\* the flat matches the transform consumes under a limit
Consumed(hits, limit) ==
  IF limit # 0 /\ limit < Len(hits) THEN SubSeq(hits, 1, limit) ELSE hits

\* the consumed flat matches of one url that are body matches, in arrival order
BodyHits(url) ==
  SelectSeq(Consumed(qHits, qLimit),
            LAMBDA h : /\ _getUrlAndNodeIndex(h.ref).url = url
                       /\ _getUrlAndNodeIndex(h.ref).nodeIndex # 0)

\* C7 (as claimed): the body list of a section is in original node order
C7_BodyInNodeOrder ==
  qPc = "done" =>
    \A g \in 1..Len(qGroups) :
      \A i, j \in 1..Len(qGroups[g].matchData) :
        i < j => qGroups[g].matchData[i].index < qGroups[g].matchData[j].index

\* C7 (amended): the body list of a section holds its consumed body matches
\* in the order in which the flat matches arrived, each with node index N-1
C7_BodyInArrivalOrder ==
  qPc = "done" =>
    \A g \in 1..Len(qGroups) :
      LET hs == BodyHits(qGroups[g].url)
      IN /\ Len(qGroups[g].matchData) = Len(hs)
         /\ Len(qOutput[g].body) = Len(hs)
         /\ \A i \in 1..Len(hs) :
              /\ qGroups[g].matchData[i].index = _getUrlAndNodeIndex(hs[i].ref).nodeIndex - 1
              /\ qOutput[g].body[i].score = hs[i].score

C7_Witness ==
  /\ qPc = "done"
  /\ \E g \in 1..Len(qGroups) :
       /\ Len(qOutput[g].body) = 2
       /\ qGroups[g].matchData[1].index > qGroups[g].matchData[2].index

\* the number of flat matches that ended in a title slot or a body list
Slots(groups) ==
  LET RECURSIVE Sum(_)
      Sum(g) == IF g = 0 THEN 0
                ELSE Sum(g - 1) + Len(groups[g].matchData)
                     + (IF groups[g].title.index = 0 THEN 1 ELSE 0)
  IN Sum(Len(groups))

\* C8: with a non-zero limit L at most the first L flat matches are consumed,
\* so titles plus body entries of the results are at most L; with limit 0
\* every flat match is consumed
C8_LimitBoundsFlatMatches ==
  qPc = "done" =>
    /\ qLimit # 0 => Slots(qGroups) <= qLimit /\ Len(qOutput) <= qLimit
    /\ qLimit # 0 =>
         Slots(qGroups) = Cardinality({i \in 1..Min(qLimit, Len(qHits)) :
                             _getUrlAndNodeIndex(qHits[i].ref).url \in DOMAIN qDocs})
    /\ qLimit = 0 =>
         Slots(qGroups) = Cardinality({i \in 1..Len(qHits) :
                             _getUrlAndNodeIndex(qHits[i].ref).url \in DOMAIN qDocs})

C8_Witness ==
  /\ qPc = "done"
  /\ qLimit = 2
  /\ Len(qHits) = 3
  /\ Slots(qGroups) = 2
  /\ \A i \in 1..3 : _getUrlAndNodeIndex(qHits[i].ref).url \in DOMAIN qDocs

\* C9: a flat match whose url is not a key of docs produces no result and no
\* error: every returned url is a key of docs and the result is the one the
\* other consumed matches give on their own
C9_StaleMatchesDropped ==
  qPc = "done" =>
    /\ \A g \in 1..Len(qOutput) : qOutput[g].url \in DOMAIN qDocs
    /\ LET live == SelectSeq(Consumed(qHits, qLimit),
                     LAMBDA h : _getUrlAndNodeIndex(h.ref).url \in DOMAIN qDocs)
       IN qOutput = SearchOutput(queryResults(live, 0, qDocs))

C9_Witness ==
  /\ qPc = "done"
  /\ Len(qOutput) >= 1
  /\ Len(qHits) >= 2
  /\ _getUrlAndNodeIndex(qHits[1].ref).url \notin DOMAIN qDocs
  /\ _getUrlAndNodeIndex(qHits[2].ref).url \in DOMAIN qDocs

\* the entries of the written index whose ref is r
EntriesAt(r) == {k \in 1..Len(idxFile.index) : idxFile.index[k].url = r}

\* C10: save registers, for every section of the registry, exactly one entry
\* with ref url@lvl0 whose content is the title and exactly one entry with
\* ref url@lvl{i+1} whose content is nodes[i], and no other entry: a section
\* with n nodes yields exactly 1 + n entries
C10_SaveEntriesPerSection ==
  idxFile.written =>
    /\ \A d \in 1..Len(idxFile.docs) :
         LET doc == idxFile.docs[d]
         IN /\ Cardinality(EntriesAt(MakeRef(doc.url, 0))) = 1
            /\ \A k \in EntriesAt(MakeRef(doc.url, 0)) :
                 idxFile.index[k].content = doc.title
            /\ \A i \in 1..Len(doc.nodes) :
                 /\ Cardinality(EntriesAt(MakeRef(doc.url, i))) = 1
                 /\ \A k \in EntriesAt(MakeRef(doc.url, i)) :
                      idxFile.index[k].content = doc.nodes[i]
            /\ Cardinality({k \in 1..Len(idxFile.index) :
                              _getUrlAndNodeIndex(idxFile.index[k].url).url = doc.url})
                 = 1 + Len(doc.nodes)
    /\ \A k \in 1..Len(idxFile.index) :
         \E d \in 1..Len(idxFile.docs) :
           \E i \in 0..Len(idxFile.docs[d].nodes) :
             idxFile.index[k].url = MakeRef(idxFile.docs[d].url, i)

C10_Witness ==
  /\ idxFile.written
  /\ idxLast = "saved"
  /\ Len(idxFile.docs) >= 2
  /\ \E d \in 1..Len(idxFile.docs) : Len(idxFile.docs[d].nodes) >= 2
  /\ Len(idxFile.index) >= 4

\* C11: for every section url of addDoc and every level N >= 0, parsing the
\* ref url@lvlN gives back exactly that url and that N
C11_RefRoundTrip ==
  refPc = "done" => refParsed.url = refUrl /\ refParsed.nodeIndex = refLevel

\* C12: addDoc fails when content has no children key, when children is
\* empty or when permalink is empty, and the registry is then as it was
C12_AddDocRejects ==
  (/\ adOutcome # "init"
   /\ \/ ~adContent.hasChildren
      \/ adContent.children = <<>>
      \/ adPermalink = <<>>)
  => adOutcome = "threw" /\ adDocs = adBefore

C12_Witness ==
  /\ adOutcome = "threw"
  /\ adContent.hasChildren
  /\ adContent.children = <<>>
  /\ adPermalink # <<>>
  /\ adBefore # <<>>

\* the positions of the headings among the children of the call
HeadingsAt == {i \in 1..Len(adContent.children) : adContent.children[i].tag \in headings}

\* the url of the section the heading at position i starts
SectionUrlAt(i) ==
  IF adContent.children[i].tag = "h1" THEN adPermalink
  ELSE adPermalink \o <<adContent.children[i].children[1].href>>

\* the position of the next heading after position i, or past the end
NextHeadingAt(i) ==
  Min(Len(adContent.children) + 1,
      IF \E j \in HeadingsAt : j > i
      THEN CHOOSE j \in HeadingsAt : j > i /\ \A k \in HeadingsAt : k > i => j <= k
      ELSE Len(adContent.children) + 1)

\* the text the children from position i up to position j - 1 contribute
RECURSIVE BodyBetween(_, _)
BodyBetween(i, j) ==
  IF i >= j THEN <<>>
  ELSE Concat(<<>>, _nodeToString(adContent.children[i])) \o BodyBetween(i + 1, j)

C14_FilteredTextAbsent ==
  adOutcome = "added" =>
    \A d \in 1..Len(adDocs) :
      \A n \in 1..Len(adDocs[d].nodes) :
        \A k \in 1..Len(adDocs[d].nodes[n]) : adDocs[d].nodes[n][k] # Hidden[1]

C16_NotReadyUntilLoaded ==
  /\ dlSearched.called => (dlSearched.threw <=> ~dlSearched.ready)
  /\ (dlLoaded.pc = "done" /\ dlLoaded.read \notin Indexes)
       => dlLoaded.after = dlLoaded.before /\ ~dlLoaded.threw
  /\ dlSucceeded => readIndex # Null

C16_Witness ==
  /\ dlSearched.called
  /\ dlSearched.ready
  /\ ~dlSearched.threw
  /\ dlFile = "missing"
  /\ \E p \in 1..MaxDlLoads : dlLoads[p].pc = "resume" /\ dlLoads[p].read = "index1"

\* C17: a saveDoc whose permalink another doc (another json path) of the
\* version already uses raises duplicate-permalink and changes neither the
\* db nor the doc files; a saveDoc to the json path of an existing doc with
\* that doc's own permalink does not raise it, and its continuation leaves
\* the doc updated in the db and its content on disk
C17_DuplicateRaisesOwnUpdates ==
  /\ (dsLast.op = "saveDoc" /\ dsLast.other) =>
       (dsLast.raised = "duplicate-permalink" /\ ~dsLast.changed)
  /\ (dsLast.op = "saveDoc" /\ dsLast.own) => dsLast.raised # "duplicate-permalink"
  /\ dsLast.op = "saved" =>
       /\ getDoc(dsData, dsLast.no, dsLast.jsonPath) =
            [jsonPath |-> dsLast.jsonPath, permalink |-> dsLast.permalink,
             title |-> dsLast.title]
       /\ dsDisk[<<dsLast.no, dsLast.jsonPath>>] = dsLast.title

\* C18: when the promise of syncVersions resolves the db holds exactly the
\* given versions and no directory of a removed version is left on disk
C18_SyncVersionsRemovesContent ==
  dsLast.op = "syncVersions" =>
    /\ VersionsOf(dsData) = dsLast.given
    /\ \A no \in dsLast.removed : ~DirExists(dsDisk, no)

\* C19: once clean() has been called the version is frozen and its docs are
\* empty in every later state, and every later update, removeDoc or saveDoc
\* with valid arguments raises FrozenVersion and leaves name, docs location
\* and docs as they were
C19_FrozenAfterClean ==
  verCleaned =>
    /\ isFrozen
    /\ DocKeys(verDocs) = {}
    /\ verLast.op \in {"update", "saveDoc", "removeDoc"} =>
         (verLast.raised = "FrozenVersion" /\ ~verLast.changed)

\* a saveDoc is refused on a cleaned version while the file of an earlier
\* saveDoc is still being written
C19_Witness ==
  /\ verCleaned
  /\ verLast.op = "saveDoc"
  /\ verLast.raised = "FrozenVersion"
  /\ \E io \in verIo : io.kind = "outputJson"

\* the instances of a list, and the uids of a list
Instances(list) == {list[i] : i \in DOMAIN list}
Uids(list) == {uid(scHeap[list[i]]) : i \in DOMAIN list}
ConfigUids == {uid(scLast.versions[i]) : i \in DOMAIN scLast.versions}

\* what C20 says of the diff of the last syncConfig and of the tracked list
DiffAsClaimed ==
  /\ Uids(scDiff.added) = ConfigUids \ Uids(scLast.before)
  /\ Instances(scDiff.added) \cap Instances(scLast.before) = {}
  /\ Instances(scDiff.updated) =
       {v \in Instances(scLast.before) : uid(scHeap[v]) \in ConfigUids}
  /\ Instances(scDiff.removed) =
       {v \in Instances(scLast.before) : uid(scHeap[v]) \notin ConfigUids}
  /\ scTracked = scDiff.added \o scDiff.updated
  /\ scLast.before = <<>> =>
       (Uids(scDiff.added) = ConfigUids /\ scDiff.updated = <<>> /\ scDiff.removed = <<>>)

DistinctVersions(versions) ==
  \A i, j \in DOMAIN versions : uid(versions[i]) = uid(versions[j]) => i = j
DistinctTracked(list) ==
  \A i, j \in DOMAIN list : uid(scHeap[list[i]]) = uid(scHeap[list[j]]) => i = j

C21_NotReadyUntilLoadCompletes ==
  dbLast.op \in DbMethods =>
    IF dbLast.ready THEN dbLast.threw # "not-ready"
    ELSE dbLast.threw = "not-ready" /\ ~dbLast.changed

\* a mutation is refused while a load() has read the file and not resumed
C21_Witness ==
  /\ dbLast.op = "addDoc"
  /\ dbLast.threw = "not-ready"
  /\ \E p \in 1..MaxDbLoads : dbLoads[p].pc = "resume" /\ dbLoads[p].read = "present"

\* a mutation goes through after a load() of an unparsable file
C21_WitnessLoaded ==
  /\ dbLast.op = "addDoc"
  /\ dbLast.ready
  /\ dbLast.changed
  /\ dbFile = "unparsable"

\* C22 (as claimed): right after clearCache returns the cache holds no entry,
\* and the next search on any path calls loadIndex again
C22_ClearCacheForcesLoad ==
  /\ resolved.kind = "clearCache" => \A f \in Paths : ~indexesCache[f].present
  /\ \A c \in Decided : c.next => c.loaded

\* C22 (amended): the same, for a clearCache called while no search is in
\* flight
C22_ClearCacheForcesLoadQuiet ==
  /\ resolved.kind = "clearCache" => \A f \in Paths : ~indexesCache[f].present
  /\ \A c \in Decided : (c.next /\ c.quiet) => c.loaded

\* the next search on a path that was cached when clearCache ran finds the
\* file as it was and loads it again
C22_Witness ==
  /\ resolved.kind = "search"
  /\ resolved.next
  /\ resolved.quiet
  /\ resolved.had
  /\ resolved.loaded
  /\ Len(resolved.result) > 0

\* C25: when a search resolves without throwing, its result is computed from
\* the entry load returned, which is the entry the cache holds at that
\* moment, and the sweep it started has only issued its stats: no
\* revalidateIndex of the sweep has finished or evicted anything yet
C25_SweepAfterResult ==
  (resolved.kind = "search" /\ ~resolved.threw) =>
    /\ resolved.index = indexesCache[resolved.path]
    /\ resolved.result =
         IF ~resolved.index.present THEN <<>>
         ELSE SearchOutput(queryResults(Artifact(resolved.index.content).hits,
                                        resolved.limit,
                                        Artifact(resolved.index.content).docs))
    /\ \A f \in Paths :
         resolved.tasks[f] = IF indexesCache[f].present THEN "stat" ELSE "none"

\* a search resolves with matches while the file of its path is gone: the
\* sweep it started is going to evict the entry the result came from
C25_Witness ==
  /\ resolved.kind = "search"
  /\ ~resolved.threw
  /\ Len(resolved.result) > 0
  /\ ~fs[resolved.path].exists
  /\ resolved.tasks[resolved.path] = "stat"

\* C27: an entry leaves the cache, other than by clearCache, only while its
\* file does not exist
C27_EvictsOnlyMissing ==
  [][\A f \in Paths :
       (indexesCache[f].present /\ ~indexesCache'[f].present
          /\ resolved'.kind # "clearCache") => ~fs[f].exists]_vars

\* C27: a search whose stat found the file, with valid content, and that
\* resolves while the file is there with valid content, does not answer from
\* a missing entry
C27_NoEmptyForExistingFile ==
  (/\ resolved.kind = "search"
   /\ resolved.cached.present /\ ~resolved.loaded
   /\ resolved.seen \in Valid
   /\ fs[resolved.path].exists /\ fs[resolved.path].content \in Valid)
  => resolved.index.present

\* C28: with every write giving the file a later mtime, when load finds the
\* file at its stat and returns a cached entry without calling loadIndex, the
\* content of the entry is the content the file had at that stat
C28_FingerprintSound ==
  (/\ resolved.kind = "search"
   /\ ~resolved.loaded
   /\ resolved.index.present
   /\ resolved.seen # "enoent")
  => resolved.index.content = resolved.seen

\* C28, the file missing at the stat: a cached entry returned without
\* calling loadIndex belongs to a file that was there at that stat
C28_FingerprintSoundMissing ==
  (resolved.kind = "search" /\ ~resolved.loaded /\ resolved.index.present)
  => resolved.seen # "enoent"

\* C30: in every state of the db no two docs of a version at different json
\* paths have the same permalink
C30_PermalinkUnique ==
  \A v \in DOMAIN dsData :
    \A i, j \in DOMAIN dsData[v].docs :
      dsData[v].docs[i].jsonPath # dsData[v].docs[j].jsonPath
        => ~isSame(dsData[v].docs[i].permalink, dsData[v].docs[j].permalink)

\* the position of the first heading of the call, or past the end
FirstHeadingAt == NextHeadingAt(0)

\* C23: the children before the first heading of a document leave no trace:
\* the registry after the call is the one the children from the first
\* heading on give, and the registry the call found when there is no heading
C23_PreambleDiscarded ==
  adOutcome = "added" =>
    /\ adDocs = AddChildren([docs |-> adBefore, sectionUrl |-> NoUrl],
                            SubSeq(adContent.children, FirstHeadingAt,
                                   Len(adContent.children)),
                            adPermalink).docs
    /\ HeadingsAt = {} => adDocs = adBefore
    /\ \A b \in 1..Len(adBefore) :
         (\A i \in HeadingsAt : SectionUrlAt(i) # adBefore[b].url)
         => \E d \in 1..Len(adDocs) : adDocs[d] = adBefore[b]

\* a document that starts with a paragraph of text is added to a registry
\* that holds sections of earlier documents
C23_Witness ==
  /\ adOutcome = "added"
  /\ adBefore # <<>>
  /\ Len(adContent.children) >= 2
  /\ adContent.children[1].tag = "p"
  /\ Len(_nodeToString(adContent.children[1]).value) # 0
  /\ 2 \in HeadingsAt

\* C24: a call keeps every section it found whose url no heading of its
\* document produces, title and nodes unchanged, and leaves a section for
\* every heading of its document
C24_Accumulates ==
  adOutcome = "added" =>
    /\ \A b \in 1..Len(adBefore) :
         (\A i \in HeadingsAt : SectionUrlAt(i) # adBefore[b].url)
         => /\ b <= Len(adDocs)
            /\ adDocs[b] = adBefore[b]
    /\ \A i \in HeadingsAt :
         \E d \in 1..Len(adDocs) : adDocs[d].url = SectionUrlAt(i)

\* the second document replaces one section of the first, keeps the other
\* and adds one
C24_Witness ==
  /\ adOutcome = "added"
  /\ Len(adBefore) = 2
  /\ Len(adDocs) = 3
  /\ adDocs[1] # adBefore[1]
  /\ adDocs[2] = adBefore[2]

\* C29: after a call the text of every child that follows a heading is among
\* the nodes of a section, and the headings of the document have one section
\* each
C29_NoTextLost ==
  adOutcome = "added" =>
    /\ \A i \in HeadingsAt :
         \A k \in 1..Len(BodyBetween(i + 1, NextHeadingAt(i))) :
           \E d \in 1..Len(adDocs) :
             /\ adDocs[d].url = SectionUrlAt(i)
             /\ \E n \in 1..Len(adDocs[d].nodes) :
                  adDocs[d].nodes[n] = BodyBetween(i + 1, NextHeadingAt(i))[k]
    /\ Cardinality({d \in 1..Len(adDocs) :
                      \E i \in HeadingsAt : adDocs[d].url = SectionUrlAt(i)})
         = Cardinality(HeadingsAt)

\* the positions a call of _nodeToMarks hands to _positionToMarks
HlPositions ==
  IF hlMetadata.present THEN _collectPositions(hlMetadata.keywords) ELSE <<>>

\* the cursor _positionToMarks has reached before position k
CursorAt(k) == IF k = 1 THEN 0 ELSE HlPositions[k - 1][1] + HlPositions[k - 1][2]

====
